---- MODULE Spec2Model ----
(***************************************************************************)
(* Verification model of the Jumia catalogue scraper and its tiered read   *)
(* API.                                                                    *)
(*                                                                         *)
(*   SpecIngest   the crawler of src/src/main.ts: concurrent page handlers *)
(*                upserting scraped drafts into the product collection.    *)
(*   SpecGate     the key/plan/quota middleware of src/src/api.ts under    *)
(*                concurrent requests.                                     *)
(*   Spec         the cached routes of src/src/api.ts, reached with the    *)
(*                plan the middleware resolved, while the crawler writes   *)
(*                to the store and time passes.                            *)
(*   SpecCache    calls of the cache(key, fn, ttl) helper of               *)
(*                src/unnamed/part_003 and part_005, with the 'error'      *)
(*                listener that sets the redis handle to null.             *)
(*   SpecProject  the per-plan transforms of the three API versions,       *)
(*                applied to records.                                      *)
(*   SpecRange    GET /produit/price-range and GET /produit/:id of         *)
(*                src/unnamed/part_003 and part_001, through the router.   *)
(*   SpecAdmin    the administrative insert POST /produit of               *)
(*                src/unnamed/part_003 and part_005, with ADMIN_KEY set    *)
(*                and not set.                                             *)
(*   SpecList     GET /produit, the list of the latest records, in its     *)
(*                four versions on stores at and above each limit.         *)
(*   FairSpecIngest  SpecIngest with weak fairness of the crawler's steps. *)
(*   SerialSpecGate  SpecGate with the requests served one after the       *)
(*                other.                                                   *)
(*   SpecRoutes   the five cached routes of src/src/api.ts through the     *)
(*                router, on a populated store.                            *)
(*   SpecPrice    parsePrice of src/unnamed/part_003 on display prices.    *)
(*   SpecDetail   GET /produit/:id of src/src/api.ts and of                *)
(*                src/unnamed/part_003 while the crawler writes.           *)
(***************************************************************************)
EXTENDS Integers, Sequences, FiniteSets, TLC

VARIABLES
    store,      \* the Product collection: a set of documents
    now,        \* the wall clock (new Date(), Redis TTL clock)
    hpc,        \* crawler: per page, the position of its requestHandler
    left,       \* crawler: per page, the number of drafts the loop has not reached
    mapAt,      \* crawler: per page, the new Date() of the products map
    cur,        \* crawler: per page, the draft the loop is processing
    results,    \* crawler: the run's accumulated list of written products
    nprod,      \* crawler: per page, products.length
    firstIns,   \* history: per url, id/createdAt of the first upsert applied
    lastSet,    \* history: per url, the mutable fields of the last upsert applied
    nUpserts,   \* history: per url, the number of upserts applied
    redisOn,    \* api: the redis handle is non-null
    ADMIN_KEY,  \* api: process.env.ADMIN_KEY, Undefined when it is not set
    quota,      \* redis: the counters quota:<key>, NoCount when the key is absent
    quotaExp,   \* redis: the expiry of each counter, NoExp when it has none
    req,        \* api: the requests, each with its position and its locals
    cache,      \* redis: the cached payloads, a set of entries with their key
    storeVer,   \* history: the number of writes the store has taken
    popWin      \* history: per cache key, the population that opened its TTL window

ingestVars == <<hpc, left, mapAt, cur, results, nprod, firstIns, lastSet, nUpserts>>
gateVars == <<quota, quotaExp>>
cacheVars == <<cache, storeVer, popWin>>
vars == <<store, now, ingestVars, redisOn, ADMIN_KEY, gateVars, req, cacheVars>>

(***************************************************************************)
(* Bounds of the model.                                                    *)
(***************************************************************************)
NPages    == 2      \* pages (crawler requests) of one run
MaxScraped == 2     \* drafts extracted in one run, all pages together
MaxDrafts == MaxScraped       \* article.prd elements of one page
MaxNow    == 1      \* the clock stops advancing here
NReq      == 2      \* requests received by the API
NearQuota == 1      \* a used counter starts this far below its plan's quota

Nil       == "<nil>"          \* no value (a string): null / no key
NoRec     == [nil |-> TRUE]   \* no value where a record is expected
Undefined == "<undefined>"    \* the JavaScript value undefined

Pages == 1..NPages

(***************************************************************************)
(* Scraped values.  A draft is what page.$$eval returns for one article:   *)
(* title, price, image, url and sourcePage (main.ts 38-46).  The url may   *)
(* be undefined (no a.core element); the mutable fields are present.       *)
(***************************************************************************)
Urls == {"u1", "u2"}

Scraped ==
    { [title |-> "t1", price |-> "100", image |-> "i1"],
      [title |-> "t2", price |-> "150", image |-> "i2"] }

PageUrl(p) == "page" \o ToString(p)

Truthy(v) == v # Undefined /\ v # Nil /\ v # ""

productsFromPage(p) ==
    { [title |-> s.title, price |-> s.price, image |-> s.image,
       url |-> u, sourcePage |-> PageUrl(p)] :
         s \in Scraped, u \in Urls \cup {Undefined, ""} }

(* randomUUID(): a value no other call returns.  The model names it after  *)
(* the page and the position of the draft it is made for.                  *)
randomUUID(p, k) == "id" \o ToString(p) \o "." \o ToString(k)

(* products = productsFromPage.map(p => ({...p, id: randomUUID(),          *)
(* createdAt: new Date()})): a draft with a fresh id and the time of the   *)
(* map.                                                                    *)
withId(d, id, at) ==
    [title |-> d.title, price |-> d.price, image |-> d.image, url |-> d.url,
     sourcePage |-> d.sourcePage, id |-> id, createdAt |-> at]

(***************************************************************************)
(* The store: Product.updateOne({url}, {$set, $setOnInsert}, {upsert}).    *)
(***************************************************************************)
Matching(u) == { d \in store : d.url = u }

(* a slip: id and createdAt written by $set instead of $setOnInsert        *)
ApplySet_withId(d, p) ==
    [d EXCEPT !.title = p.title, !.price = p.price,
              !.image = p.image, !.sourcePage = p.sourcePage,
              !.id = p.id, !.createdAt = p.createdAt]

(* $set: { title, price, image, sourcePage } applied to a matched document *)
ApplySet(d, p) ==
    [d EXCEPT !.title = p.title, !.price = p.price,
              !.image = p.image, !.sourcePage = p.sourcePage]

(* the document an upsert inserts: the filter's url, $set and $setOnInsert *)
InsertDoc(p) ==
    [url |-> p.url, title |-> p.title, price |-> p.price, image |-> p.image,
     sourcePage |-> p.sourcePage, id |-> p.id, createdAt |-> p.createdAt]

(* a slip: url declared without unique: true                              *)
UrlIndexAllows_noIndex(u) == TRUE

(* url: { type: String, unique: true }: the unique index refuses a second  *)
(* document with the same url                                              *)
UrlIndexAllows(u) == Matching(u) = {}

MutableOf(p) ==
    [title |-> p.title, price |-> p.price, image |-> p.image,
     sourcePage |-> p.sourcePage]

Applied(p) ==
    /\ firstIns' = IF firstIns[p.url] = NoRec
                   THEN [firstIns EXCEPT ![p.url] = [id |-> p.id, createdAt |-> p.createdAt]]
                   ELSE firstIns
    /\ lastSet' = [lastSet EXCEPT ![p.url] = MutableOf(p)]
    /\ nUpserts' = [nUpserts EXCEPT ![p.url] = @ + 1]

(***************************************************************************)
(* The API process while the crawler is what runs: nothing of it moves.    *)
(***************************************************************************)
apiVars == <<redisOn, ADMIN_KEY, gateVars, req, cacheVars>>

NoCount == -1
NoExp   == -1

Slots == 1..NReq

NoVer == -1

IdleReq == [pc |-> "idle", path |-> Nil, key |-> Nil, plan |-> Nil,
            count |-> NoCount, status |-> 0,
            route |-> Nil, arg |-> Nil, data |-> <<>>, body |-> <<>>,
            fromCache |-> FALSE, fail |-> Nil,
            ver |-> NoVer, lookupVer |-> NoVer, fresh |-> FALSE,
            winVer |-> NoVer, winClean |-> FALSE,
            ttl |-> 0, calls |-> 0, seen |-> {}, version |-> Nil,
            hitRoute |-> Nil, errorBody |-> Nil, present |-> FALSE]

ApiIdle ==
    /\ redisOn = FALSE
    /\ ADMIN_KEY = Undefined
    /\ quota = [k \in {} |-> NoCount]
    /\ quotaExp = [k \in {} |-> NoExp]
    /\ req = [r \in Slots |-> IdleReq]
    /\ cache = {}
    /\ storeVer = 0
    /\ popWin = {}

(***************************************************************************)
(* The crawler (main.ts 31-69).  The content of a page is an input: the    *)
(* model fixes the number of articles of a page when the page is scraped   *)
(* and draws each article's content when the loop reaches it.              *)
(***************************************************************************)
IngestInit ==
    /\ store = {}
    /\ now = 0
    /\ hpc = [p \in Pages |-> "queued"]
    /\ left = [p \in Pages |-> 0]
    /\ mapAt = [p \in Pages |-> 0]
    /\ cur = [p \in Pages |-> NoRec]
    /\ results = <<>>
    /\ nprod = [p \in Pages |-> 0]
    /\ firstIns = [u \in Urls |-> NoRec]
    /\ lastSet = [u \in Urls |-> NoRec]
    /\ nUpserts = [u \in Urls |-> 0]
    /\ ApiIdle

RECURSIVE SumProducts(_)
SumProducts(P) ==
    IF P = {} THEN 0
    ELSE LET p == CHOOSE q \in P : TRUE IN nprod[p] + SumProducts(P \ {p})

(* requestHandler up to the loop: page.$$eval and products = ...map(...)   *)
Scrape(p) ==
    /\ hpc[p] = "queued"
    /\ \E n \in 0..MaxDrafts :
          /\ SumProducts(Pages) + n <= MaxScraped
          /\ nprod' = [nprod EXCEPT ![p] = n]
          /\ left' = [left EXCEPT ![p] = n]
    /\ mapAt' = [mapAt EXCEPT ![p] = now]
    /\ hpc' = [hpc EXCEPT ![p] = "loop"]
    /\ UNCHANGED <<store, now, cur, results, firstIns, lastSet, nUpserts>>
    /\ UNCHANGED apiVars

(* for (const product of products) {                                       *)
NextProduct(p) ==
    /\ hpc[p] = "loop"
    /\ left[p] > 0
    /\ \E d \in productsFromPage(p) :
          cur' = [cur EXCEPT ![p] =
                      withId(d, randomUUID(p, nprod[p] - left[p] + 1), mapAt[p])]
    /\ left' = [left EXCEPT ![p] = @ - 1]
    /\ hpc' = [hpc EXCEPT ![p] = "product"]
    /\ UNCHANGED <<store, now, mapAt, results, nprod, firstIns, lastSet, nUpserts>>
    /\ UNCHANGED apiVars

(* if (!product.url) continue;                                             *)
SkipNoUrl(p) ==
    /\ hpc[p] = "product"
    /\ ~Truthy(cur[p].url)
    /\ hpc' = [hpc EXCEPT ![p] = "loop"]
    /\ cur' = [cur EXCEPT ![p] = NoRec]
    /\ UNCHANGED <<store, now, left, mapAt, results, nprod, firstIns, lastSet, nUpserts>>
    /\ UNCHANGED apiVars

(* the loop without its test of the url                                    *)
UpsertMatch_noUrlCheck(p) ==
    /\ hpc[p] = "product"
    /\ IF Matching(cur[p].url) # {}
       THEN /\ \E m \in Matching(cur[p].url) :
                    store' = (store \ {m}) \cup { ApplySet(m, cur[p]) }
            /\ UNCHANGED <<firstIns, lastSet, nUpserts>>
            /\ results' = Append(results, cur[p])
            /\ hpc' = [hpc EXCEPT ![p] = "loop"]
            /\ cur' = [cur EXCEPT ![p] = NoRec]
       ELSE /\ store' = store \cup { InsertDoc(cur[p]) }
            /\ UNCHANGED <<firstIns, lastSet, nUpserts>>
            /\ results' = Append(results, cur[p])
            /\ hpc' = [hpc EXCEPT ![p] = "loop"]
            /\ cur' = [cur EXCEPT ![p] = NoRec]
    /\ UNCHANGED <<now, left, mapAt, nprod>>
    /\ UNCHANGED apiVars

(* updateOne, first half: the store looks for a document with the url.  A  *)
(* match is updated in place ($set only; $setOnInsert is ignored), and     *)
(* results.push(product) follows.  With no match the store goes on to      *)
(* insert.                                                                 *)
UpsertMatch(p) ==
    /\ hpc[p] = "product"
    /\ Truthy(cur[p].url)
    /\ IF Matching(cur[p].url) # {}
       THEN /\ \E m \in Matching(cur[p].url) :
                    store' = (store \ {m}) \cup { ApplySet(m, cur[p]) }
            /\ Applied(cur[p])
            /\ results' = Append(results, cur[p])
            /\ hpc' = [hpc EXCEPT ![p] = "loop"]
            /\ cur' = [cur EXCEPT ![p] = NoRec]
       ELSE /\ hpc' = [hpc EXCEPT ![p] = "inserting"]
            /\ UNCHANGED <<store, cur, results, firstIns, lastSet, nUpserts>>
    /\ UNCHANGED <<now, left, mapAt, nprod>>
    /\ UNCHANGED apiVars

(* updateOne, second half: the insert.  The unique index on url decides.   *)
UpsertInsert(p) ==
    /\ hpc[p] = "inserting"
    /\ UrlIndexAllows(cur[p].url)
    /\ store' = store \cup { InsertDoc(cur[p]) }
    /\ Applied(cur[p])
    /\ results' = Append(results, cur[p])
    /\ hpc' = [hpc EXCEPT ![p] = "loop"]
    /\ cur' = [cur EXCEPT ![p] = NoRec]
    /\ UNCHANGED <<now, left, mapAt, nprod>>
    /\ UNCHANGED apiVars

(* The insert loses to a concurrent insert of the same url: duplicate key. *)
(* The server retries the upsert, which now matches and updates.           *)
UpsertRetry(p) ==
    /\ hpc[p] = "inserting"
    /\ ~UrlIndexAllows(cur[p].url)
    /\ hpc' = [hpc EXCEPT ![p] = "product"]
    /\ UNCHANGED <<store, now, left, mapAt, cur, results, nprod, firstIns, lastSet, nUpserts>>
    /\ UNCHANGED apiVars

(* ... or the duplicate key error (E11000) is thrown out of updateOne and  *)
(* the handler ends with it.                                               *)
UpsertDuplicateKey(p) ==
    /\ hpc[p] = "inserting"
    /\ ~UrlIndexAllows(cur[p].url)
    /\ hpc' = [hpc EXCEPT ![p] = "failed"]
    /\ cur' = [cur EXCEPT ![p] = NoRec]
    /\ UNCHANGED <<store, now, left, mapAt, results, nprod, firstIns, lastSet, nUpserts>>
    /\ UNCHANGED apiVars

(* a failure that takes the whole run down with it                         *)
HandlerFails_abortsRun(p) ==
    /\ hpc[p] \in {"queued", "product", "inserting"}
    /\ hpc[p] = "product" => Truthy(cur[p].url)
    /\ hpc' = [o \in Pages |-> "failed"]
    /\ cur' = [o \in Pages |-> NoRec]
    /\ UNCHANGED <<store, now, left, mapAt, results, nprod, firstIns, lastSet, nUpserts>>
    /\ UNCHANGED apiVars

(* The handler of one page throws: waitForSelector times out after 20 s    *)
(* or $$eval fails (lines 36-46), or updateOne rejects on a store failure  *)
(* (line 57).  The crawler marks that request failed, its last attempt     *)
(* being the one modelled, and goes on with the other requests.            *)
HandlerFails(p) ==
    /\ hpc[p] \in {"queued", "product", "inserting"}
    /\ hpc[p] = "product" => Truthy(cur[p].url)
    /\ hpc' = [hpc EXCEPT ![p] = "failed"]
    /\ cur' = [cur EXCEPT ![p] = NoRec]
    /\ UNCHANGED <<store, now, left, mapAt, results, nprod, firstIns, lastSet, nUpserts>>
    /\ UNCHANGED apiVars

(* the loop is over: log.info(`... produits traités`)                      *)
HandlerDone(p) ==
    /\ hpc[p] = "loop"
    /\ left[p] = 0
    /\ hpc' = [hpc EXCEPT ![p] = "done"]
    /\ UNCHANGED <<store, now, left, mapAt, cur, results, nprod, firstIns, lastSet, nUpserts>>
    /\ UNCHANGED apiVars

Tick ==
    /\ now < MaxNow
    /\ now' = now + 1
    /\ UNCHANGED <<store, ingestVars, redisOn, ADMIN_KEY, gateVars, req, cacheVars>>

IngestNext ==
    \/ \E p \in Pages : Scrape(p)
    \/ \E p \in Pages : NextProduct(p)
    \/ \E p \in Pages : SkipNoUrl(p)
    \/ \E p \in Pages : UpsertMatch(p)
    \/ \E p \in Pages : UpsertInsert(p)
    \/ \E p \in Pages : UpsertRetry(p)
    \/ \E p \in Pages : UpsertDuplicateKey(p)
    \/ \E p \in Pages : HandlerFails(p)
    \/ \E p \in Pages : HandlerDone(p)
    \/ Tick

SpecIngest == IngestInit /\ [][IngestNext]_vars

(* crawler.run(urls) keeps taking steps while a request is left to handle  *)
FairSpecIngest == IngestInit /\ [][IngestNext]_vars /\ WF_vars(IngestNext)

(***************************************************************************)
(* src/src/api.ts 45-84: the RapidAPI key, plan and quota middleware.      *)
(***************************************************************************)
TickSeconds == 60                         \* seconds of one step of the clock
Seconds(t) == t * TickSeconds

(* the x-rapidapi-key header of a request: absent, a key of planMapping,   *)
(* or another string                                                       *)
KeyHeaders == {Undefined, "key_basic", "key_pro", "key_ultra", "key_mega",
               "bogus", "constructor"}
Paths == {"/ping", "/produit", "/produit/price/abc"}

(* Number(x) of a string of the request; NaN stands for the not-a-number value      *)
NaN == -1000000
Number(x) ==
    CASE x = "100" -> 100 [] x = "2000" -> 2000 [] x = "0" -> 0 [] x = "999999" -> 999999
      [] OTHER -> NaN
isNaN(n) == n = NaN

(* req.params.price of the paths of GET /produit/price/:price              *)
PricePaths == {"/produit/price/abc"}
PriceParam(path) == CASE path = "/produit/price/abc" -> "abc"

planMapping ==
    [key_basic |-> "BASIC", key_pro |-> "PRO", key_ultra |-> "ULTRA", key_mega |-> "MEGA"]

planQuota ==
    [BASIC |-> 500, PRO |-> 5000, ULTRA |-> 30000, MEGA |-> 100000]

QuotaWindow == 30 * 24 * 60 * 60

(* planMapping and planQuota are object literals: obj[name] also finds the *)
(* properties they inherit from Object.prototype.  ObjectFn is what        *)
(* obj['constructor'] gives, written as a template string renders it.      *)
ObjectFn == "function Object() { [native code] }"
ObjectPrototype == [constructor |-> ObjectFn]

Lookup(obj, name) ==
    IF name \in DOMAIN obj THEN obj[name]
    ELSE IF name \in DOMAIN ObjectPrototype THEN ObjectPrototype[name]
    ELSE Undefined

OwnKeys == DOMAIN planMapping


(* count >= planQuota[plan].  Only the object's own properties are         *)
(* numbers; against an inherited function or undefined, >= is false.       *)
QuotaReached(count, plan) ==
    IF plan \in DOMAIN planQuota THEN count >= planQuota[plan] ELSE FALSE

quotaKey(k) == "quota:" \o k
QuotaKeys == { quotaKey(k) : k \in KeyHeaders \ {Undefined} }

(* Redis: a key whose expiry has passed is gone                            *)
Live(qk) ==
    /\ quota[qk] # NoCount
    /\ quotaExp[qk] = NoExp \/ Seconds(now) < quotaExp[qk]

(* redis.get(qk), then countStr ? parseInt(countStr, 10) : 0               *)
redisGetCount(qk) == IF Live(qk) THEN quota[qk] ELSE 0

GateInit ==
    /\ store = {}
    /\ now = 0
    /\ hpc = [p \in Pages |-> "queued"]
    /\ left = [p \in Pages |-> 0]
    /\ mapAt = [p \in Pages |-> 0]
    /\ cur = [p \in Pages |-> NoRec]
    /\ results = <<>>
    /\ nprod = [p \in Pages |-> 0]
    /\ firstIns = [u \in Urls |-> NoRec]
    /\ lastSet = [u \in Urls |-> NoRec]
    /\ nUpserts = [u \in Urls |-> 0]
    /\ redisOn \in BOOLEAN
    /\ ADMIN_KEY = Undefined
    /\ \E hot \in IF redisOn THEN OwnKeys \cup {Nil} ELSE {Nil} :
       \E hotExp \in IF hot = Nil THEN {QuotaWindow} ELSE {QuotaWindow, TickSeconds} :
          /\ quota = [qk \in QuotaKeys |->
                        IF hot # Nil /\ qk = quotaKey(hot)
                        THEN planQuota[planMapping[hot]] - NearQuota ELSE NoCount]
          /\ quotaExp = [qk \in QuotaKeys |->
                        IF hot # Nil /\ qk = quotaKey(hot)
                        THEN hotExp ELSE NoExp]
    /\ req = [r \in Slots |-> IdleReq]
    /\ cache = {}
    /\ storeVer = 0
    /\ popWin = {}

(* An awaited redis call rejects inside the async middleware, which has no *)
(* try/catch: the request gets no answer (status 0) or, where the          *)
(* framework forwards the rejection, the error handler's 500.              *)
Unhandled(r) ==
    \E code \in {0, 500} :
        req' = [req EXCEPT ![r].pc = "failed", ![r].status = code]

(* the middleware without the test of line 46                              *)
Receive_noPingBypass(r) ==
    /\ req[r].pc = "idle"
    /\ \E path \in Paths, key \in KeyHeaders :
         LET plan == IF key = Undefined THEN Undefined ELSE Lookup(planMapping, key)
             q    == [req[r] EXCEPT !.path = path, !.key = key]
         IN  IF ~Truthy(key)
               THEN req' = [req EXCEPT ![r] = [q EXCEPT !.pc = "done", !.status = 401]]
             ELSE IF ~Truthy(plan)
               THEN req' = [req EXCEPT ![r] = [q EXCEPT !.pc = "done", !.status = 403]]
             ELSE IF redisOn
               THEN req' = [req EXCEPT ![r] = [q EXCEPT !.pc = "mwGet", !.plan = plan]]
             ELSE req' = [req EXCEPT ![r] = [q EXCEPT !.pc = "next", !.plan = plan]]
    /\ UNCHANGED <<store, now, ingestVars, redisOn, ADMIN_KEY, gateVars, cacheVars>>

(* lines 46-71: the middleware up to its first await                       *)
Receive(r) ==
    /\ req[r].pc = "idle"
    /\ \E path \in Paths, key \in KeyHeaders :
         LET plan == IF key = Undefined THEN Undefined ELSE Lookup(planMapping, key)
             q    == [req[r] EXCEPT !.path = path, !.key = key]
         IN  IF path = "/ping"
               THEN req' = [req EXCEPT ![r] = [q EXCEPT !.pc = "next"]]
             ELSE IF ~Truthy(key)
               THEN req' = [req EXCEPT ![r] = [q EXCEPT !.pc = "done", !.status = 401]]
             ELSE IF ~Truthy(plan)
               THEN req' = [req EXCEPT ![r] = [q EXCEPT !.pc = "done", !.status = 403]]
             ELSE IF redisOn
               THEN req' = [req EXCEPT ![r] = [q EXCEPT !.pc = "mwGet", !.plan = plan]]
             ELSE req' = [req EXCEPT ![r] = [q EXCEPT !.pc = "next", !.plan = plan]]
    /\ UNCHANGED <<store, now, ingestVars, redisOn, ADMIN_KEY, gateVars, cacheVars>>

(* the test of line 75 with > in the place of >=                           *)
MwGet_admitsAtCeiling(r) ==
    /\ req[r].pc = "mwGet"
    /\ LET count == redisGetCount(quotaKey(req[r].key))
       IN  IF req[r].plan \in DOMAIN planQuota /\ count > planQuota[req[r].plan]
           THEN req' = [req EXCEPT ![r].pc = "done", ![r].count = count, ![r].status = 429]
           ELSE req' = [req EXCEPT ![r].pc = "mwIncr", ![r].count = count]
    /\ UNCHANGED <<store, now, ingestVars, redisOn, ADMIN_KEY, gateVars, cacheVars>>

(* lines 72-77: redis.get answers                                          *)
MwGet(r) ==
    /\ req[r].pc = "mwGet"
    /\ LET count == redisGetCount(quotaKey(req[r].key))
       IN  IF QuotaReached(count, req[r].plan)
           THEN req' = [req EXCEPT ![r].pc = "done", ![r].count = count, ![r].status = 429]
           ELSE req' = [req EXCEPT ![r].pc = "mwIncr", ![r].count = count]
    /\ UNCHANGED <<store, now, ingestVars, redisOn, ADMIN_KEY, gateVars, cacheVars>>

(* line 79: redis.incr answers; it creates a missing counter at 1, without *)
(* an expiry                                                               *)
MwIncr(r) ==
    /\ req[r].pc = "mwIncr"
    /\ LET qk == quotaKey(req[r].key)
       IN  IF Live(qk)
           THEN /\ quota' = [quota EXCEPT ![qk] = @ + 1]
                /\ UNCHANGED quotaExp
           ELSE /\ quota' = [quota EXCEPT ![qk] = 1]
                /\ quotaExp' = [quotaExp EXCEPT ![qk] = NoExp]
    /\ req' = [req EXCEPT ![r].pc = "mwExpire"]
    /\ UNCHANGED <<store, now, ingestVars, redisOn, ADMIN_KEY, cacheVars>>

(* line 80: redis.expire answers; line 83: next()                          *)
MwExpire(r) ==
    /\ req[r].pc = "mwExpire"
    /\ LET qk == quotaKey(req[r].key)
       IN  quotaExp' = [quotaExp EXCEPT ![qk] =
                           IF Live(qk) THEN Seconds(now) + QuotaWindow ELSE @]
    /\ req' = [req EXCEPT ![r].pc = "next"]
    /\ UNCHANGED <<store, now, ingestVars, redisOn, ADMIN_KEY, quota, cacheVars>>

(* lines 72, 79, 80: the awaited redis call rejects (backend unreachable,  *)
(* or an error reply)                                                      *)
MwRedisError(r) ==
    /\ req[r].pc \in {"mwGet", "mwIncr", "mwExpire"}
    /\ Unhandled(r)
    /\ UNCHANGED <<store, now, ingestVars, redisOn, ADMIN_KEY, gateVars, cacheVars>>

(* lines 176-180: GET /produit/price/:price with a price that is not a     *)
(* number, after the middleware called next()                              *)
PriceNaN(r) ==
    /\ req[r].pc = "next"
    /\ req[r].path \in PricePaths
    /\ isNaN(Number(PriceParam(req[r].path)))
    /\ req' = [req EXCEPT ![r].pc = "done", ![r].status = 400]
    /\ UNCHANGED <<store, now, ingestVars, redisOn, ADMIN_KEY, gateVars, cacheVars>>

(* lines 87-89: GET /ping, after the middleware called next()              *)
Ping(r) ==
    /\ req[r].pc = "next"
    /\ req[r].path = "/ping"
    /\ req' = [req EXCEPT ![r].pc = "done", ![r].status = 200]
    /\ UNCHANGED <<store, now, ingestVars, redisOn, ADMIN_KEY, gateVars, cacheVars>>

GateNext ==
    \/ \E r \in Slots : PriceNaN(r)
    \/ \E r \in Slots : Ping(r)
    \/ \E r \in Slots : Receive(r)
    \/ \E r \in Slots : MwGet(r)
    \/ \E r \in Slots : MwIncr(r)
    \/ \E r \in Slots : MwExpire(r)
    \/ \E r \in Slots : MwRedisError(r)
    \/ Tick

SpecGate == GateInit /\ [][GateNext]_vars

(* The same middleware when the requests come one after the other: a       *)
(* request is received once every earlier one has left the middleware.     *)
InMiddleware(r) == req[r].pc \in {"mwGet", "mwIncr", "mwExpire"}

SerialReceive(r) ==
    /\ \A o \in Slots : ~InMiddleware(o)
    /\ Receive(r)

SerialGateNext ==
    \/ \E r \in Slots : PriceNaN(r)
    \/ \E r \in Slots : Ping(r)
    \/ \E r \in Slots : SerialReceive(r)
    \/ \E r \in Slots : MwGet(r)
    \/ \E r \in Slots : MwIncr(r)
    \/ \E r \in Slots : MwExpire(r)
    \/ \E r \in Slots : MwRedisError(r)
    \/ Tick

SerialSpecGate == GateInit /\ [][SerialGateNext]_vars

(***************************************************************************)
(* The cached routes of src/src/api.ts (lines 92-117: GET /produit), each  *)
(* reached through next() with the plan the middleware put on the request. *)
(* The handler's awaits are the points where requests interleave.          *)
(***************************************************************************)
MaxWrites == 2                            \* writes the crawler makes to the store

(* the keys the middleware lets through, and the plans it attaches         *)
PassingKeys == {k \in KeyHeaders \ {Undefined} : Truthy(Lookup(planMapping, k))}
RoutePlans == {Lookup(planMapping, k) : k \in PassingKeys}

(* the cache keys of the five cached routes (lines 95, 123, 150, 182, 210) *)
listKey(plan) == "produits:list:" \o plan
idKey(id, plan) == "produit:" \o id \o ":" \o plan
searchKey(name, plan) == "produit:search:" \o name \o ":" \o plan
priceKey(price, plan) == "produit:price:" \o price \o ":" \o plan
searchPriceKey(name, price, plan) ==
    "produit:searchprice:" \o name \o ":" \o price \o ":" \o plan

(* the same keys with the plan left out                                    *)
cacheKey_noPlan(route, q, plan) ==
    CASE route = "list"        -> "produits:list:"
      [] route = "id"          -> "produit:" \o q[1] \o ":"
      [] route = "search"      -> "produit:search:" \o q[1] \o ":"
      [] route = "price"       -> "produit:price:" \o q[1] \o ":"
      [] route = "searchPrice" -> "produit:searchprice:" \o q[1] \o ":" \o q[2] \o ":"

cacheKey(route, q, plan) ==
    CASE route = "list"        -> listKey(plan)
      [] route = "id"          -> idKey(q[1], plan)
      [] route = "search"      -> searchKey(q[1], plan)
      [] route = "price"       -> priceKey(q[1], plan)
      [] route = "searchPrice" -> searchPriceKey(q[1], q[2], plan)

Routes == {"list", "id", "search", "price", "searchPrice"}
ListTTL == 60                             \* line 111: setex(cacheKey, 60, ...)
ListLimit == 100                          \* line 101: limit(100)

(* lines 103-109: the object built for one product                         *)
transform(p, plan) ==
    LET base == ("id" :> p.id) @@ ("title" :> p.title)
        mid  == IF plan # "BASIC"
                THEN base @@ ("price" :> p.price) @@ ("image" :> p.image) @@ ("url" :> p.url)
                ELSE base
        top  == IF plan = "MEGA" THEN mid @@ ("sourcePage" :> p.sourcePage) ELSE mid
    IN  top @@ ("plan" :> plan)

(* JSON.stringify leaves out the properties whose value is undefined or a  *)
(* function; this is what reaches the client and the cache                 *)
Serializable(v) == v # Undefined /\ v # ObjectFn
JSONObject(o) == [f \in {g \in DOMAIN o : Serializable(o[g])} |-> o[f]]
JSONArray(a) == [i \in DOMAIN a |-> JSONObject(a[i])]

(* line 101: find().sort({createdAt: -1}).limit(100); documents with equal *)
(* createdAt come in any order                                             *)
Orders(S) ==
    {q \in [1..Cardinality(S) -> S] :
        /\ \A i, j \in DOMAIN q : i # j => q[i] # q[j]
        /\ \A i, j \in DOMAIN q : i < j => q[i].createdAt >= q[j].createdAt}
Limit(q, n) == IF Len(q) <= n THEN q ELSE SubSeq(q, 1, n)

(* redis: an entry is gone once its seconds have elapsed                   *)
EntryLive(e) == Seconds(now) < e.exp

(* a lookup that never finds an entry                                      *)
redisGet_miss(k) == {}

(* redis.get(k): the live entry under k, if there is one                   *)
redisGet(k) == {e \in cache : e.key = k /\ EntryLive(e)}

WindowOpen(k) == \E w \in popWin : w.key = k /\ Seconds(now) < w.until
WindowOf(k) == CHOOSE w \in popWin : w.key = k
WindowVer(k) == IF WindowOpen(k) THEN WindowOf(k).ver ELSE NoVer
WindowClean(k) == WindowOpen(k) /\ WindowOf(k).clean

(* another request for the same key is between its miss and its write      *)
MissInFlight(r, k) ==
    \E o \in Slots \ {r} :
        /\ req[o].pc \in {"rFind", "rSetex"}
        /\ cacheKey(req[o].route, req[o].arg, req[o].plan) = k

RouteStart ==
    /\ store = {}
    /\ now = 0
    /\ hpc = [p \in Pages |-> "queued"]
    /\ left = [p \in Pages |-> 0]
    /\ mapAt = [p \in Pages |-> 0]
    /\ cur = [p \in Pages |-> NoRec]
    /\ results = <<>>
    /\ nprod = [p \in Pages |-> 0]
    /\ firstIns = [u \in Urls |-> NoRec]
    /\ lastSet = [u \in Urls |-> NoRec]
    /\ nUpserts = [u \in Urls |-> 0]
    /\ redisOn \in BOOLEAN
    /\ quota = [qk \in QuotaKeys |-> NoCount]
    /\ quotaExp = [qk \in QuotaKeys |-> NoExp]
    /\ req = [r \in Slots |-> IdleReq]
    /\ cache = {}
    /\ storeVer = 0
    /\ popWin = {}

RouteInit == RouteStart /\ ADMIN_KEY = Undefined


(* next() hands the request to the route; line 96: without a redis client  *)
(* the handler goes straight to the store                                  *)
Arrive(r) ==
    /\ req[r].pc = "idle"
    /\ \E key \in PassingKeys :
         req' = [req EXCEPT ![r].pc = IF redisOn THEN "rGet" ELSE "rFind",
                            ![r].path = "/produit", ![r].route = "list",
                            ![r].arg = <<>>, ![r].key = key,
                            ![r].plan = Lookup(planMapping, key),
                            ![r].lookupVer = IF redisOn THEN NoVer ELSE storeVer,
                            ![r].fresh = ~redisOn]
    /\ UNCHANGED <<store, now, ingestVars, redisOn, ADMIN_KEY, gateVars, cacheVars>>

(* lines 97-98: redis.get answers; a hit is sent back as it is             *)
RGet(r) ==
    /\ req[r].pc = "rGet"
    /\ LET k   == cacheKey(req[r].route, req[r].arg, req[r].plan)
           hit == redisGet(k)
           q   == [req[r] EXCEPT !.lookupVer = storeVer, !.fresh = ~WindowOpen(k)]
       IN  IF hit # {}
           THEN \E e \in hit :
                  req' = [req EXCEPT ![r] =
                            [q EXCEPT !.pc = "done", !.status = 200,
                                      !.body = e.payload, !.fromCache = TRUE,
                                      !.ver = e.ver,
                                      !.winVer = WindowVer(k),
                                      !.winClean = WindowClean(k)]]
           ELSE req' = [req EXCEPT ![r] = [q EXCEPT !.pc = "rFind"]]
    /\ UNCHANGED <<store, now, ingestVars, redisOn, ADMIN_KEY, gateVars, cacheVars>>

(* lines 101-109 and, without a redis client, line 113                     *)
RFind(r) ==
    /\ req[r].pc = "rFind"
    /\ \E q \in Orders(store) :
         LET products    == Limit(q, ListLimit)
             transformed == [i \in DOMAIN products |-> transform(products[i], req[r].plan)]
         IN  IF redisOn
             THEN req' = [req EXCEPT ![r].pc = "rSetex", ![r].data = transformed,
                                     ![r].ver = storeVer]
             ELSE req' = [req EXCEPT ![r].pc = "done", ![r].status = 200,
                                     ![r].body = JSONArray(transformed),
                                     ![r].ver = storeVer]
    /\ UNCHANGED <<store, now, ingestVars, redisOn, ADMIN_KEY, gateVars, cacheVars>>

(* lines 111-113: redis.setex answers, then the response is sent           *)
RSetex(r) ==
    /\ req[r].pc = "rSetex"
    /\ LET k == cacheKey(req[r].route, req[r].arg, req[r].plan)
           e == [key |-> k, payload |-> JSONArray(req[r].data),
                 ver |-> req[r].ver, exp |-> Seconds(now) + ListTTL]
           w == [key |-> k, ver |-> storeVer, until |-> Seconds(now) + ListTTL,
                 clean |-> ~MissInFlight(r, k)]
       IN  /\ cache' = {c \in cache : c.key # k} \cup {e}
           /\ popWin' = {v \in popWin : v.key # k} \cup {w}
           /\ req' = [req EXCEPT ![r].pc = "done", ![r].status = 200,
                                 ![r].body = JSONArray(req[r].data),
                                 ![r].data = <<>>,
                                 ![r].winVer = WindowVer(k),
                                 ![r].winClean = WindowClean(k)]
    /\ UNCHANGED <<store, now, ingestVars, redisOn, ADMIN_KEY, gateVars, storeVer>>

(* lines 97, 111 with 114-116: the awaited redis call rejects and the      *)
(* catch block answers                                                     *)
RCacheError(r) ==
    /\ req[r].pc \in {"rGet", "rSetex"}
    /\ req' = [req EXCEPT ![r].pc = "done", ![r].status = 500, ![r].fail = "cache",
                          ![r].data = <<>>]
    /\ UNCHANGED <<store, now, ingestVars, redisOn, ADMIN_KEY, gateVars, cacheVars>>

(* line 101 with 114-116: the store rejects and the catch block answers    *)
RStoreError(r) ==
    /\ req[r].pc = "rFind"
    /\ req' = [req EXCEPT ![r].pc = "done", ![r].status = 500, ![r].fail = "store"]
    /\ UNCHANGED <<store, now, ingestVars, redisOn, ADMIN_KEY, gateVars, cacheVars>>

(* what the crawler scrapes on its n-th write: the listing alternates      *)
(* between two states of the product card                                  *)
ScrapeNo(n) ==
    IF n % 2 = 1 THEN [title |-> "t1", price |-> "100", image |-> "i1"]
                 ELSE [title |-> "t2", price |-> "150", image |-> "i2"]

(* the crawler's upsert of one draft, applied by the store in one step     *)
(* (main.ts 50-63); nothing of the cache is touched                        *)
Ingest ==
    /\ storeVer < MaxWrites
    /\ \E u \in Urls :
         LET sc == ScrapeNo(storeVer + 1)
             d  == [id |-> "w" \o ToString(storeVer + 1), title |-> sc.title,
                   price |-> sc.price, image |-> sc.image, url |-> u,
                   sourcePage |-> PageUrl(1), createdAt |-> now]
         IN  store' = IF Matching(u) = {}
                      THEN store \cup {InsertDoc(d)}
                      ELSE {IF x.url = u THEN ApplySet(x, d) ELSE x : x \in store}
    /\ storeVer' = storeVer + 1
    /\ UNCHANGED <<now, ingestVars, redisOn, ADMIN_KEY, gateVars, req, cache, popWin>>

Next ==
    \/ \E r \in Slots : Arrive(r)
    \/ \E r \in Slots : RGet(r)
    \/ \E r \in Slots : RFind(r)
    \/ \E r \in Slots : RSetex(r)
    \/ \E r \in Slots : RCacheError(r)
    \/ \E r \in Slots : RStoreError(r)
    \/ Ingest
    \/ Tick

Spec == RouteInit /\ [][Next]_vars

(***************************************************************************)
(* cache(key, fn, ttl) of src/unnamed/part_003 (lines 79-88; the same in   *)
(* part_005, lines 71-78), called by the routes with the query of the      *)
(* route as fn.  A call is at its redis.get, at its fn(), at its           *)
(* redis.setex, or over: returned, or thrown when an awaited call rejects. *)
(* redisOn is the module's handle (lines 43-53): non-null or null; the     *)
(* 'error' listener of line 51 sets it to null at any time.                *)
(***************************************************************************)
(* the cache keys of the routes (lines 164, 181, 199, 228); the plan is a  *)
(* header value put in upper case, 'PRO' when absent                       *)
cacheKeyA(route, q, plan) ==
    CASE route = "list"   -> "all:" \o plan
      [] route = "search" -> "search:" \o q[1] \o ":" \o plan
      [] route = "price"  -> "price:" \o q[1] \o "-" \o q[2] \o ":" \o plan
      [] route = "id"     -> "id:" \o q[1] \o ":" \o plan

RoutesA == {"list", "search", "price", "id"}

HelperPlans == {"BASIC", "PRO"}
HelperIds == {"w1", "none"}
DefaultTtl == 60                          \* part_003 line 79: ttl = 60
HelperCalls ==
    {[route |-> "list", arg |-> <<"", "">>, ttl |-> 60]}                      \* line 170
      \cup {[route |-> "id", arg |-> <<i, "">>, ttl |-> 300] : i \in HelperIds} \* line 231

(* JSON.stringify then JSON.parse of lean documents: a Date comes back as  *)
(* a string                                                                *)
JSONDoc(d) == [d EXCEPT !.createdAt = ToString(@)]
JSONDocs(a) == [i \in DOMAIN a |-> JSONDoc(a[i])]

(* what fn() resolves to: the sorted documents (lines 166-169), or the     *)
(* document with the id, none when there is no such document (line 230)    *)
FnResults(route, arg) ==
    IF route = "list" THEN Orders(store)
    ELSE {q \in Orders({d \in store : d.id = arg[1]}) : Len(q) <= 1}

CacheInit == RouteInit

(* line 80: without a handle the call is fn() and nothing else             *)
CCall(r) ==
    /\ req[r].pc = "idle"
    /\ \E c \in HelperCalls, plan \in HelperPlans :
         req' = [req EXCEPT ![r].pc = IF redisOn THEN "cGet" ELSE "cFnDirect",
                            ![r].route = c.route, ![r].arg = c.arg,
                            ![r].ttl = c.ttl, ![r].plan = plan]
    /\ UNCHANGED <<store, now, ingestVars, redisOn, ADMIN_KEY, gateVars, cacheVars>>

(* lines 82-83                                                             *)
CGet(r) ==
    /\ req[r].pc = "cGet"
    /\ LET k    == cacheKeyA(req[r].route, req[r].arg, req[r].plan)
           hit  == redisGet(k)
           seen == {e \in cache : e.key = k /\ Seconds(now) < e.exp}
       IN  IF hit # {}
           THEN \E e \in hit :
                  req' = [req EXCEPT ![r].pc = "returned", ![r].body = e.payload,
                                     ![r].fromCache = TRUE, ![r].seen = seen]
           ELSE req' = [req EXCEPT ![r].pc = "cFn", ![r].seen = seen]
    /\ UNCHANGED <<store, now, ingestVars, redisOn, ADMIN_KEY, gateVars, cacheVars>>

(* line 85: after fn() the call goes on to line 86 without looking at     *)
(* the handle again; line 80: the call is over with fn()                   *)
CFn(r) ==
    /\ req[r].pc \in {"cFn", "cFnDirect"}
    /\ \E data \in FnResults(req[r].route, req[r].arg) :
         IF req[r].pc = "cFn"
         THEN req' = [req EXCEPT ![r].pc = "cSetex", ![r].data = data,
                                 ![r].calls = @ + 1]
         ELSE req' = [req EXCEPT ![r].pc = "returned", ![r].body = data,
                                 ![r].calls = @ + 1]
    /\ UNCHANGED <<store, now, ingestVars, redisOn, ADMIN_KEY, gateVars, cacheVars>>

(* the write with the default in place of the ttl given                    *)
CSetex_defaultTtl(r) ==
    /\ req[r].pc = "cSetex"
    /\ redisOn
    /\ LET k == cacheKeyA(req[r].route, req[r].arg, req[r].plan)
           e == [key |-> k, payload |-> JSONDocs(req[r].data), ver |-> storeVer,
                 exp |-> Seconds(now) + DefaultTtl]
       IN  cache' = {c \in cache : c.key # k} \cup {e}
    /\ req' = [req EXCEPT ![r].pc = "returned", ![r].body = req[r].data]
    /\ UNCHANGED <<store, now, ingestVars, redisOn, ADMIN_KEY, gateVars, storeVer, popWin>>

(* lines 86-87, the handle being non-null when line 86 reads it            *)
CSetex(r) ==
    /\ req[r].pc = "cSetex"
    /\ redisOn
    /\ LET k == cacheKeyA(req[r].route, req[r].arg, req[r].plan)
           e == [key |-> k, payload |-> JSONDocs(req[r].data), ver |-> storeVer,
                 exp |-> Seconds(now) + req[r].ttl]
       IN  cache' = {c \in cache : c.key # k} \cup {e}
    /\ req' = [req EXCEPT ![r].pc = "returned", ![r].body = req[r].data]
    /\ UNCHANGED <<store, now, ingestVars, redisOn, ADMIN_KEY, gateVars, storeVer, popWin>>

(* line 86 with the handle null: redis.setex is a property read on null,   *)
(* a TypeError inside the async function, so the call rejects              *)
CSetexNoHandle(r) ==
    /\ req[r].pc = "cSetex"
    /\ ~redisOn
    /\ req' = [req EXCEPT ![r].pc = "thrown", ![r].fail = "handle"]
    /\ UNCHANGED <<store, now, ingestVars, redisOn, ADMIN_KEY, gateVars, cacheVars>>

(* lines 82, 85, 86: the awaited call rejects; nothing catches it          *)
CThrow(r) ==
    /\ req[r].pc \in {"cGet", "cFn", "cFnDirect", "cSetex"}
    /\ req[r].pc = "cSetex" => redisOn
    /\ req' = [req EXCEPT ![r].pc = "thrown",
                          ![r].fail = IF req[r].pc \in {"cFn", "cFnDirect"}
                                      THEN "store" ELSE "cache"]
    /\ UNCHANGED <<store, now, ingestVars, redisOn, ADMIN_KEY, gateVars, cacheVars>>

(* line 51: redis.on('error', () => (redis = null)); the listener runs     *)
(* between any two steps of the calls in flight                            *)
RedisOnError ==
    /\ redisOn
    /\ redisOn' = FALSE
    /\ UNCHANGED <<store, now, ingestVars, ADMIN_KEY, gateVars, req, cacheVars>>

CacheNext ==
    \/ \E r \in Slots : CCall(r)
    \/ \E r \in Slots : CGet(r)
    \/ \E r \in Slots : CFn(r)
    \/ \E r \in Slots : CSetex(r)
    \/ \E r \in Slots : CSetexNoHandle(r)
    \/ \E r \in Slots : CThrow(r)
    \/ RedisOnError
    \/ Ingest
    \/ Tick

SpecCache == CacheInit /\ [][CacheNext]_vars

(***************************************************************************)
(* The transforms that give each plan its view of a product: the inline    *)
(* one of src/src/api.ts (transform, above) and the two transformProduct   *)
(* of src/unnamed/part_003.  What the client receives is the JSON of the   *)
(* object built.                                                           *)
(***************************************************************************)
(* part_003 lines 105-121                                                  *)
transformProductA(p, plan) ==
    IF plan = "BASIC"
    THEN ("id" :> p.id) @@ ("title" :> p.title)
    ELSE ("id" :> p.id) @@ ("title" :> p.title) @@ ("image" :> p.image)
           @@ ("url" :> p.url) @@ ("category" :> p.category)

(* part_003 lines 396-402                                                  *)
transformProductC(p, plan) ==
    LET base == ("id" :> p.id) @@ ("title" :> p.title)
        mid  == IF plan # "BASIC"
                THEN base @@ ("price" :> p.price) @@ ("image" :> p.image)
                       @@ ("url" :> p.url) @@ ("category" :> p.category)
                ELSE base
        top  == IF plan = "MEGA" THEN mid @@ ("sourcePage" :> p.sourcePage) ELSE mid
    IN  top @@ ("plan" :> plan)

Tiers == {"BASIC", "PRO", "ULTRA", "MEGA"}
Versions == {"api", "A", "C"}
project(version, p, plan) ==
    CASE version = "api" -> JSONObject(transform(p, plan))
      [] version = "A"   -> JSONObject(transformProductA(p, plan))
      [] version = "C"   -> JSONObject(transformProductC(p, plan))

(* records with every field of the schema present                         *)
Records ==
    {[id |-> "w" \o n, title |-> "t" \o n, price |-> n \o "00", image |-> "i" \o n,
      url |-> "u" \o n, sourcePage |-> PageUrl(1), category |-> "c" \o n,
      createdAt |-> 0] : n \in {"1", "2"}}

(* the plan header of part_003, x-rapidapi-subscription, absent or any     *)
(* string; toUpperCase() of the ones drawn                                 *)
SubscriptionHeaders == {Undefined, "basic", "pro", "ultra", "mega", "gold"}
toUpperCase(h) ==
    CASE h = "basic" -> "BASIC" [] h = "pro" -> "PRO" [] h = "ultra" -> "ULTRA"
      [] h = "mega" -> "MEGA" [] h = "gold" -> "GOLD"

(* the plans a request can carry into the transform: planMapping[apiKey]   *)
(* in api.ts; (planHeader || 'PRO').toUpperCase() in part_003 line 98;     *)
(* subscription ? subscription.toUpperCase() : 'BASIC' in line 386         *)
PlansOf(version) ==
    CASE version = "api" -> RoutePlans
      [] version = "A"   -> {toUpperCase(IF Truthy(h) THEN h ELSE "pro") : h \in SubscriptionHeaders}
      [] version = "C"   -> {IF Truthy(h) THEN toUpperCase(h) ELSE "BASIC" : h \in SubscriptionHeaders}

(* a response object is built for a record and a plan                      *)
Project(r) ==
    /\ req[r].pc = "idle"
    /\ \E version \in Versions, p \in Records :
       \E plan \in PlansOf(version) :
         req' = [req EXCEPT ![r].pc = "projected", ![r].route = version,
                            ![r].plan = plan, ![r].data = <<p>>,
                            ![r].body = <<project(version, p, plan)>>]
    /\ UNCHANGED <<store, now, ingestVars, redisOn, ADMIN_KEY, gateVars, cacheVars>>

ProjectNext == \E r \in Slots : Project(r)

SpecProject == RouteInit /\ [][ProjectNext]_vars

(***************************************************************************)
(* GET /produit/price-range in the three versions that have it: version A  *)
(* (part_003 lines 124-237), version C (part_003 lines 392-535) and        *)
(* part_001 (lines 232-394, "P1"), whose handlers are those of version C.  *)
(* Express hands a request to the first route registered whose pattern     *)
(* matches the path.                                                       *)
(***************************************************************************)
RangeVersions == {"A", "C", "P1"}

(* the GET routes in the order of their app.get calls                      *)
RouteTable(version) ==
    IF version = "A"
    THEN << <<"produit">>, <<"produit", "search", ":name">>, <<"produit", "price-range">>,
            <<"produit", "categories">>, <<"produit", ":id">> >>
    ELSE IF version = "api"
    THEN << <<"produit">>, <<"produit", ":id">>, <<"produit", "search", ":name">>,
            <<"produit", "price", ":price">>,
            <<"produit", "search", ":name", "price", ":price">> >>
    ELSE << <<"produit">>, <<"produit", ":id">>, <<"produit", "search", ":name">>,
            <<"produit", "price-range">>, <<"produit", "categories">> >>

IsParam(seg) == seg \in {":id", ":name", ":price"}
Matches(pattern, segs) ==
    /\ Len(pattern) = Len(segs)
    /\ \A i \in DOMAIN pattern : IsParam(pattern[i]) \/ pattern[i] = segs[i]

Dispatch(version, segs) ==
    LET T == RouteTable(version)
        M == {i \in DOMAIN T : Matches(T[i], segs)}
    IN  T[CHOOSE i \in M : \A j \in M : i <= j]

NumString(n) == IF isNaN(n) THEN "NaN" ELSE ToString(n)

(* the min and max of the query string                                     *)
RangeQueries == {<<"100", "2000">>, <<"2000", "100">>, <<"abc", "100">>, <<Undefined, "2000">>}

(* part_003 lines 195-196: Number(req.query.min || 0), (... || 999999);    *)
(* lines 482-483 and part_001 333-334: Number(req.query.min), (...max)     *)
RangeMin(version, q) ==
    IF version = "A" THEN Number(IF Truthy(q[1]) THEN q[1] ELSE "0") ELSE Number(q[1])
RangeMax(version, q) ==
    IF version = "A" THEN Number(IF Truthy(q[2]) THEN q[2] ELSE "999999") ELSE Number(q[2])

(* part_003 line 485, part_001 line 336; version A has no such test        *)
RangeRejected(version, min, max) ==
    IF version = "A" THEN FALSE
    ELSE isNaN(min) \/ isNaN(max) \/ min < 0 \/ max < min

(* part_003 line 199; line 488 and part_001 line 340                       *)
rangeKey(version, min, max, plan) ==
    IF version = "A"
    THEN "price:" \o NumString(min) \o "-" \o NumString(max) \o ":" \o plan
    ELSE "price-range:" \o NumString(min) \o "-" \o NumString(max) \o ":" \o plan

(* part_003 line 204; line 494 and part_001 line 346                       *)
rangeLimit(version, plan) ==
    IF version = "A" THEN (IF plan = "BASIC" THEN 20 ELSE 100)
    ELSE IF plan = "BASIC" THEN 20 ELSE IF plan = "PRO" THEN 50 ELSE 100

(* the documents the store holds when the requests come                    *)
SeedDocs ==
    {[id |-> "w1", title |-> "t1", price |-> "100", priceNumber |-> 100, image |-> "i1",
      url |-> "u1", sourcePage |-> PageUrl(1), category |-> "c1", createdAt |-> 3],
     [id |-> "w2", title |-> "t2", price |-> "150", priceNumber |-> 150, image |-> "i2",
      url |-> "u2", sourcePage |-> PageUrl(1), category |-> "c1", createdAt |-> 1],
     [id |-> "w3", title |-> "t3", price |-> "3000", priceNumber |-> 3000, image |-> "i3",
      url |-> "u3", sourcePage |-> PageUrl(2), category |-> "c2", createdAt |-> 2]}

(* every order of a set of documents: a find() without sort                *)
AnyOrders(S) ==
    {q \in [1..Cardinality(S) -> S] : \A i, j \in DOMAIN q : i # j => q[i] # q[j]}

(* find({priceNumber: {$gte: min, $lte: max}}), then .limit(n) in version  *)
(* A and .sort({createdAt: -1}).limit(n) in the others                     *)
InRange(min, max) == {d \in store : ~isNaN(min) /\ ~isNaN(max) /\ min <= d.priceNumber /\ d.priceNumber <= max}
RangeFound(version, min, max, n) ==
    {Limit(q, n) : q \in IF version = "A" THEN AnyOrders(InRange(min, max))
                                         ELSE Orders(InRange(min, max))}

viewOf(version, p, plan) ==
    IF version = "A" THEN JSONObject(transformProductA(p, plan))
                     ELSE JSONObject(transformProductC(p, plan))
viewsOf(version, a, plan) == [i \in DOMAIN a |-> viewOf(version, a[i], plan)]

RangeInit ==
    /\ store = SeedDocs
    /\ now = 0
    /\ hpc = [p \in Pages |-> "queued"]
    /\ left = [p \in Pages |-> 0]
    /\ mapAt = [p \in Pages |-> 0]
    /\ cur = [p \in Pages |-> NoRec]
    /\ results = <<>>
    /\ nprod = [p \in Pages |-> 0]
    /\ firstIns = [u \in Urls |-> NoRec]
    /\ lastSet = [u \in Urls |-> NoRec]
    /\ nUpserts = [u \in Urls |-> 0]
    /\ redisOn \in BOOLEAN
    /\ ADMIN_KEY = Undefined
    /\ quota = [qk \in QuotaKeys |-> NoCount]
    /\ quotaExp = [qk \in QuotaKeys |-> NoExp]
    /\ req = [r \in Slots |-> IdleReq]
    /\ cache = {}
    /\ storeVer = 0
    /\ popWin = {}

RangePath == <<"produit", "price-range">>
IdPattern == <<"produit", ":id">>
RangePlans == {"BASIC", "PRO"}

(* the requests drawn: price-range with each query, and one product by id  *)
CategoriesPath == <<"produit", "categories">>
RangeInputs(version) ==
    {[segs |-> RangePath, q |-> q] : q \in RangeQueries}
      \cup {[segs |-> CategoriesPath, q |-> <<Undefined, Undefined>>]}
      \cup (IF version = "A" THEN {}
            ELSE {[segs |-> <<"produit", "w1">>, q |-> <<Undefined, Undefined>>]})

(* part_003 line 432, part_001 line 271                                    *)
idKeyC(id, plan) == "produit:" \o id \o ":" \o plan

(* the router picks the route; the handler runs up to its first await      *)
RangeReceive(r) ==
    /\ req[r].pc = "idle"
    /\ \E version \in RangeVersions, plan \in RangePlans :
       \E in \in RangeInputs(version) :
         LET route == Dispatch(version, in.segs)
             min   == RangeMin(version, in.q)
             max   == RangeMax(version, in.q)
             q     == [req[r] EXCEPT !.version = version, !.plan = plan,
                                     !.path = in.segs, !.route = route, !.arg = in.q]
         IN  IF route = RangePath
             THEN IF RangeRejected(version, min, max)
                  THEN req' = [req EXCEPT ![r] = [q EXCEPT !.pc = "done", !.status = 400]]
                  ELSE req' = [req EXCEPT ![r] =
                                 [q EXCEPT !.pc = IF redisOn THEN "gGet" ELSE "gFind"]]
             ELSE IF route = CategoriesPath
             THEN req' = [req EXCEPT ![r] = [q EXCEPT !.pc = "kFind"]]
             ELSE req' = [req EXCEPT ![r] =
                                 [q EXCEPT !.pc = IF redisOn THEN "iGet" ELSE "iFind"]]
    /\ UNCHANGED <<store, now, ingestVars, redisOn, ADMIN_KEY, gateVars, cacheVars>>

ReqMin(r) == RangeMin(req[r].version, req[r].arg)
ReqMax(r) == RangeMax(req[r].version, req[r].arg)
ReqRangeKey(r) == rangeKey(req[r].version, ReqMin(r), ReqMax(r), req[r].plan)

(* redis.get of the price-range handler: part_003 82-83 through cache(),   *)
(* 489-492, part_001 341-344                                               *)
GGet(r) ==
    /\ req[r].pc = "gGet"
    /\ LET hit == redisGet(ReqRangeKey(r))
       IN  IF hit # {}
           THEN \E e \in hit :
                  req' = [req EXCEPT ![r].pc = "done", ![r].status = 200,
                            ![r].fromCache = TRUE, ![r].data = e.src,
                            ![r].body = IF req[r].version = "A"
                                        THEN viewsOf("A", e.payload, req[r].plan)
                                        ELSE e.payload]
           ELSE req' = [req EXCEPT ![r].pc = "gFind"]
    /\ UNCHANGED <<store, now, ingestVars, redisOn, ADMIN_KEY, gateVars, cacheVars>>

(* the find of the handler: part_003 200-205, 495-499, part_001 348-358    *)
GFind(r) ==
    /\ req[r].pc = "gFind"
    /\ \E found \in RangeFound(req[r].version, ReqMin(r), ReqMax(r),
                               rangeLimit(req[r].version, req[r].plan)) :
         IF redisOn
         THEN req' = [req EXCEPT ![r].pc = "gSetex", ![r].data = found,
                                 ![r].calls = @ + 1]
         ELSE req' = [req EXCEPT ![r].pc = "done", ![r].status = 200,
                                 ![r].data = found, ![r].calls = @ + 1,
                                 ![r].body = viewsOf(req[r].version, found, req[r].plan)]
    /\ UNCHANGED <<store, now, ingestVars, redisOn, ADMIN_KEY, gateVars, cacheVars>>

(* setex with 120 seconds, then res.json: part_003 86 with 206-209,        *)
(* 501-503, part_001 360-362                                               *)
GSetex(r) ==
    /\ req[r].pc = "gSetex"
    /\ LET k     == ReqRangeKey(r)
           views == viewsOf(req[r].version, req[r].data, req[r].plan)
           e     == [key |-> k, ver |-> storeVer, exp |-> Seconds(now) + 120,
                     src |-> req[r].data,
                     payload |-> IF req[r].version = "A" THEN req[r].data ELSE views]
       IN  /\ cache' = {c \in cache : c.key # k} \cup {e}
           /\ req' = [req EXCEPT ![r].pc = "done", ![r].status = 200, ![r].body = views]
    /\ UNCHANGED <<store, now, ingestVars, redisOn, ADMIN_KEY, gateVars, storeVer, popWin>>

(* GET /produit/:id of part_003 429-450 and part_001 268-295               *)
IGet(r) ==
    /\ req[r].pc = "iGet"
    /\ LET hit == redisGet(idKeyC(req[r].path[2], req[r].plan))
       IN  IF hit # {}
           THEN \E e \in hit :
                  req' = [req EXCEPT ![r].pc = "done", ![r].status = 200,
                            ![r].fromCache = TRUE, ![r].data = e.src,
                            ![r].body = e.payload]
           ELSE req' = [req EXCEPT ![r].pc = "iFind"]
    /\ UNCHANGED <<store, now, ingestVars, redisOn, ADMIN_KEY, gateVars, cacheVars>>

IFind(r) ==
    /\ req[r].pc = "iFind"
    /\ LET found == {d \in store : d.id = req[r].path[2]}
       IN  IF found = {}
           THEN req' = [req EXCEPT ![r].pc = "done", ![r].status = 404,
                                   ![r].calls = @ + 1]
           ELSE \E d \in found :
                  IF redisOn
                  THEN req' = [req EXCEPT ![r].pc = "iSetex", ![r].data = <<d>>,
                                          ![r].calls = @ + 1]
                  ELSE req' = [req EXCEPT ![r].pc = "done", ![r].status = 200,
                                  ![r].data = <<d>>, ![r].calls = @ + 1,
                                  ![r].body = viewsOf(req[r].version, <<d>>, req[r].plan)]
    /\ UNCHANGED <<store, now, ingestVars, redisOn, ADMIN_KEY, gateVars, cacheVars>>

ISetex(r) ==
    /\ req[r].pc = "iSetex"
    /\ LET k     == idKeyC(req[r].path[2], req[r].plan)
           views == viewsOf(req[r].version, req[r].data, req[r].plan)
           e     == [key |-> k, ver |-> storeVer, exp |-> Seconds(now) + 300,
                     src |-> req[r].data, payload |-> views]
       IN  /\ cache' = {c \in cache : c.key # k} \cup {e}
           /\ req' = [req EXCEPT ![r].pc = "done", ![r].status = 200, ![r].body = views]
    /\ UNCHANGED <<store, now, ingestVars, redisOn, ADMIN_KEY, gateVars, storeVer, popWin>>

(* GET /produit/categories: part_003 213-221 groups the documents by       *)
(* category and counts them; part_003 510-517 and part_001 369-376 take    *)
(* the distinct categories and leave out the empty ones and 'Autre'.  None *)
(* of them uses the cache.                                                 *)
CategoriesOf(version) ==
    IF version = "A"
    THEN {[_id |-> c, count |-> Cardinality({d \in store : d.category = c})] :
             c \in {d.category : d \in store}}
    ELSE {c \in {d.category : d \in store} : Truthy(c) /\ c # "Autre"}

KFind(r) ==
    /\ req[r].pc = "kFind"
    /\ req' = [req EXCEPT ![r].pc = "done", ![r].status = 200, ![r].calls = @ + 1,
                          ![r].seen = CategoriesOf(req[r].version)]
    /\ UNCHANGED <<store, now, ingestVars, redisOn, ADMIN_KEY, gateVars, cacheVars>>

(* an awaited redis or store call rejects: the catch block answers 500; in *)
(* version A nothing catches it                                            *)
RangeFail(r) ==
    /\ req[r].pc \in {"gGet", "gFind", "gSetex", "iGet", "iFind", "iSetex", "kFind"}
    /\ LET what == IF req[r].pc \in {"gFind", "iFind", "kFind"} THEN "store" ELSE "cache"
       IN  IF req[r].version = "A"
           THEN req' = [req EXCEPT ![r].pc = "thrown", ![r].fail = what]
           ELSE req' = [req EXCEPT ![r].pc = "done", ![r].status = 500, ![r].fail = what]
    /\ UNCHANGED <<store, now, ingestVars, redisOn, ADMIN_KEY, gateVars, cacheVars>>

RangeNext ==
    \/ \E r \in Slots : RangeReceive(r)
    \/ \E r \in Slots : GGet(r)
    \/ \E r \in Slots : GFind(r)
    \/ \E r \in Slots : GSetex(r)
    \/ \E r \in Slots : IGet(r)
    \/ \E r \in Slots : IFind(r)
    \/ \E r \in Slots : ISetex(r)
    \/ \E r \in Slots : KFind(r)
    \/ \E r \in Slots : RangeFail(r)

SpecRange == RangeInit /\ [][RangeNext]_vars

OneDocPerUrl ==
    \A u \in Urls :
        /\ Cardinality(Matching(u)) <= 1
        /\ nUpserts[u] >= 1 => Cardinality(Matching(u)) = 1

IdsStable ==
    \A d \in store : \E e \in store' : e.url = d.url /\ e.id = d.id

C3_ConcurrentUpsertOneRecordStableId ==
    []OneDocPerUrl /\ [][IdsStable]_vars

(* a handler is about to insert a url another handler has inserted in the  *)
(* meantime                                                                *)
C3_Witness ==
    \E p \in Pages :
        /\ hpc[p] = "inserting"
        /\ \E d \in Matching(cur[p].url) : d.sourcePage # cur[p].sourcePage

(***************************************************************************)
(* C2.  For every recognized credential and every interleaving of its      *)
(* requests, the quota counter never exceeds the ceiling of the            *)
(* credential's plan: once the counter has reached the ceiling the next    *)
(* request is denied with 429.                                             *)
(***************************************************************************)
C2_CounterNeverExceedsCeiling ==
    \A k \in OwnKeys :
        quota[quotaKey(k)] <= planQuota[planMapping[k]]

(***************************************************************************)
(* C6.  A request on a tiered route whose credential is not a key of the   *)
(* plan mapping is rejected, with 401 when the header is missing and 403   *)
(* otherwise, and no counter exists for such a credential.                 *)
(***************************************************************************)
C6_UnrecognizedRejectedNoCounter ==
    /\ \A r \in Slots :
         (req[r].pc # "idle" /\ req[r].path # "/ping" /\ req[r].key \notin OwnKeys) =>
            /\ req[r].pc = "done"
            /\ req[r].status = IF req[r].key = Undefined THEN 401 ELSE 403
    /\ \A k \in KeyHeaders \ (OwnKeys \cup {Undefined}) :
         quota[quotaKey(k)] = NoCount


(***************************************************************************)
(* The queries and plans the key properties range over.                    *)
(***************************************************************************)
QueryParts == {"a", "1", "a:MEGA", "1:BASIC"}
Queries == QueryParts \X QueryParts

(* the fields a client of the plan receives for a document (api.ts)        *)
SampleDoc ==
    [id |-> "w0", title |-> "t0", price |-> "0", image |-> "i0", url |-> "u0",
     sourcePage |-> PageUrl(1), createdAt |-> 0]
FieldsSent(plan) == DOMAIN JSONObject(transform(SampleDoc, plan))

(***************************************************************************)
(* C4.  On every cached route and for every query, the keys built for two  *)
(* different plans differ, and every response a request of plan T got out  *)
(* of the cache is made of objects with exactly the fields of plan T.      *)
(***************************************************************************)
KeysDiffer ==
    /\ \A route \in Routes, q \in Queries, p1, p2 \in RoutePlans \cup Tiers :
          p1 # p2 => cacheKey(route, q, p1) # cacheKey(route, q, p2)
    /\ \A route \in RoutesA, q \in Queries, p1, p2 \in Tiers :
          p1 # p2 => cacheKeyA(route, q, p1) # cacheKeyA(route, q, p2)

C4_PlanKeysDisjoint ==
    /\ KeysDiffer
    /\ \A r \in Slots :
          (req[r].pc = "done" /\ req[r].fromCache) =>
             \A i \in DOMAIN req[r].body :
                /\ DOMAIN req[r].body[i] = FieldsSent(req[r].plan)
                /\ Serializable(req[r].plan) => req[r].body[i]["plan"] = req[r].plan

(* a BASIC request answered with a product out of the live entry of its    *)
(* plan                                                                    *)
C4_Witness ==
    \E r \in Slots :
        /\ req[r].pc = "done" /\ req[r].fromCache /\ req[r].plan = "BASIC"
        /\ Len(req[r].body) >= 1
        /\ \E e \in cache : e.key = cacheKey("list", <<>>, "BASIC") /\ EntryLive(e)

(***************************************************************************)
(* C5.  A request whose only failure is a cache operation that rejected    *)
(* (get or setex) is answered 200 with the list computed from the store.   *)
(***************************************************************************)
C5_FailOpen ==
    \A r \in Slots :
        req[r].fail = "cache" =>
            /\ req[r].pc = "done"
            /\ req[r].status = 200
            /\ ~req[r].fromCache

(***************************************************************************)
(* C8 as stated.  While the TTL window opened by a population of a key is  *)
(* running, no response for that key carries data of a store version newer *)
(* than the one the window was opened at; and a read whose lookup finds no *)
(* running window carries data at least as new as the store was at the     *)
(* lookup.                                                                 *)
(***************************************************************************)
ReflectsAfterExpiry ==
    \A r \in Slots :
        (req[r].pc = "done" /\ req[r].status = 200 /\ req[r].fresh) =>
            req[r].ver >= req[r].lookupVer

C8_StaleUntilExpiry ==
    /\ \A r \in Slots :
          (req[r].pc = "done" /\ req[r].status = 200 /\ req[r].winVer # NoVer) =>
              req[r].ver <= req[r].winVer
    /\ ReflectsAfterExpiry

(***************************************************************************)
(* C8, amended.  The same, for the windows opened while no other read of   *)
(* the key was between its cache miss and its cache write.                 *)
(***************************************************************************)
C8_StaleUntilExpiryWhenNoMissInFlight ==
    /\ \A r \in Slots :
          (req[r].pc = "done" /\ req[r].status = 200 /\ req[r].winVer # NoVer
             /\ req[r].winClean) =>
              req[r].ver <= req[r].winVer
    /\ ReflectsAfterExpiry

(* a read answered from an entry populated before a write to the store:    *)
(* the write is not in the answer                                          *)
C8_Witness ==
    \E r \in Slots :
        /\ req[r].pc = "done" /\ req[r].fromCache /\ req[r].winClean
        /\ req[r].ver < req[r].lookupVer


(***************************************************************************)
(* C7.  For every call of cache(key, fn, ttl) in which redis answers: if   *)
(* an unexpired entry was under the key at the lookup, the call returns    *)
(* the entry's value and fn is not invoked; otherwise fn is invoked once,  *)
(* the call returns fn's result, and the step that returns it leaves under *)
(* the key the result's JSON value, expiring ttl seconds later.            *)
(***************************************************************************)
HitOrComputeOnce ==
    \A r \in Slots :
        req[r].pc = "returned" =>
            IF req[r].seen # {}
            THEN req[r].calls = 0 /\ \E e \in req[r].seen : req[r].body = e.payload
            ELSE req[r].calls = 1 /\ req[r].fromCache = FALSE

StoredWithTtl ==
    \A r \in Slots :
        (req[r].pc = "cSetex" /\ req'[r].pc = "returned") =>
            /\ req'[r].body = req[r].data
            /\ \E e \in cache' :
                  /\ e.key = cacheKeyA(req[r].route, req[r].arg, req[r].plan)
                  /\ e.payload = JSONDocs(req[r].data)
                  /\ e.exp = Seconds(now) + req[r].ttl
            /\ \A e \in cache' :
                  e.key = cacheKeyA(req[r].route, req[r].arg, req[r].plan) =>
                      e.exp = Seconds(now) + req[r].ttl

C7_CacheAsideRead == []HitOrComputeOnce /\ [][StoredWithTtl]_vars

(* a call that found nothing, computed and stored a document, and a later  *)
(* call of the same key that returned the stored value without computing   *)
C7_Witness ==
    \E r1, r2 \in Slots :
        /\ req[r1].pc = "returned" /\ req[r1].seen = {} /\ req[r1].calls = 1
        /\ Len(req[r1].body) >= 1
        /\ req[r2].pc = "returned" /\ req[r2].seen # {} /\ req[r2].calls = 0
        /\ req[r2].route = req[r1].route /\ req[r2].arg = req[r1].arg
        /\ req[r2].plan = req[r1].plan
        /\ req[r2].body = JSONDocs(req[r1].body)


Projected(r) == req[r].pc = "projected"
FieldsOf(r) == DOMAIN req[r].body[1]

(***************************************************************************)
(* C9.  Whatever the record, the BASIC view has none of price, image,      *)
(* category, sourcePage, and the MEGA view has all of price, image, url,   *)
(* category and sourcePage (with id and title).                            *)
(***************************************************************************)
C9_BasicHidesMegaShowsAll ==
    \A r \in Slots :
        Projected(r) =>
            /\ req[r].plan = "BASIC" =>
                 FieldsOf(r) \cap {"price", "image", "category", "sourcePage"} = {}
            /\ req[r].plan = "MEGA" =>
                 {"id", "title", "price", "image", "url", "category", "sourcePage"}
                    \subseteq FieldsOf(r)

(***************************************************************************)
(* C10.  The view of a plan is exactly its field set: {id, title} for      *)
(* BASIC, these with {price, image, url, category} for PRO and ULTRA, and  *)
(* these with {sourcePage} for MEGA.                                       *)
(***************************************************************************)
TierFields(plan) ==
    CASE plan = "BASIC" -> {"id", "title"}
      [] plan \in {"PRO", "ULTRA"} -> {"id", "title", "price", "image", "url", "category"}
      [] plan = "MEGA" -> {"id", "title", "price", "image", "url", "category", "sourcePage"}

C10_ExactFieldSets ==
    \A r \in Slots :
        (Projected(r) /\ req[r].plan \in Tiers) => FieldsOf(r) = TierFields(req[r].plan)

(***************************************************************************)
(* C11.  For a plan that is none of BASIC, PRO, ULTRA, MEGA the view of a  *)
(* record is the BASIC view of the same transform, with none of price,     *)
(* image, url, category, sourcePage.                                       *)
(***************************************************************************)
C11_UnknownPlanIsBasic ==
    \A r \in Slots :
        (Projected(r) /\ req[r].plan \notin Tiers) =>
            /\ FieldsOf(r) = DOMAIN project(req[r].route, req[r].data[1], "BASIC")
            /\ FieldsOf(r) \cap {"price", "image", "url", "category", "sourcePage"} = {}


(***************************************************************************)
(* parsePrice (part_003 lines 76-77): Number(price.replace(/[^\d]/g, '')). *)
(* A string is the sequence of its characters.  replace with the global    *)
(* pattern [^\d] drops every character that is not one of 0..9; Number     *)
(* reads the digits that are left in base ten, and reads the empty string  *)
(* as 0.                                                                   *)
(***************************************************************************)
Digits == {"0", "1", "2", "5", "9"}
DigitValue(c) ==
    CASE c = "0" -> 0 [] c = "1" -> 1 [] c = "2" -> 2 [] c = "5" -> 5 [] c = "9" -> 9

IsDigit(c) == c \in Digits
replaceNonDigits(chars) == SelectSeq(chars, IsDigit)

RECURSIVE NumberOfDigits(_)
NumberOfDigits(ds) ==
    IF ds = <<>> THEN 0
    ELSE 10 * NumberOfDigits(SubSeq(ds, 1, Len(ds) - 1)) + DigitValue(ds[Len(ds)])

(* the digits up to the first character that is not a digit                *)
RECURSIVE LeadingDigits(_)
LeadingDigits(chars) ==
    IF chars = <<>> \/ ~IsDigit(Head(chars)) THEN <<>>
    ELSE <<Head(chars)>> \o LeadingDigits(Tail(chars))

parsePriceChars_leading(chars) == NumberOfDigits(LeadingDigits(chars))

parsePriceChars(chars) == NumberOfDigits(replaceNonDigits(chars))

(* the price strings of the drafts and their characters                    *)
PriceStrings == {"100", "150", "1,500 Dhs", "Dhs"}
Chars(price) ==
    CASE price = "100" -> <<"1", "0", "0">>
      [] price = "150" -> <<"1", "5", "0">>
      [] price = "1,500 Dhs" -> <<"1", ",", "5", "0", "0", " ", "D", "h", "s">>
      [] price = "Dhs" -> <<"D", "h", "s">>
parsePrice(price) == parsePriceChars(Chars(price))

(***************************************************************************)
(* C12.  After any upsert of the crawler, every document of the store has  *)
(* a priceNumber, and it is the number made of the digits of its price.    *)
(***************************************************************************)
C12_NumericPriceFollowsPrice ==
    \A d \in store :
        /\ "priceNumber" \in DOMAIN d
        /\ d.priceNumber = parsePrice(d.price)


(* a price-range request, and whether its bounds are invalid: a bound that *)
(* is not a number, or min greater than max                                *)
IsRangeRequest(r) == req[r].pc # "idle" /\ req[r].path = RangePath
InvalidBounds(q) ==
    \/ q[1] # Undefined /\ isNaN(Number(q[1]))
    \/ q[2] # Undefined /\ isNaN(Number(q[2]))
    \/ (~isNaN(Number(q[1])) /\ ~isNaN(Number(q[2])) /\ Number(q[1]) > Number(q[2]))
ValidBounds(q) ==
    ~isNaN(Number(q[1])) /\ ~isNaN(Number(q[2])) /\ Number(q[1]) <= Number(q[2])

(***************************************************************************)
(* C13.  A price-range request with invalid bounds is answered 400 at      *)
(* once: it is never at a cache read, a store query or a cache write.      *)
(***************************************************************************)
C13_InvalidRangeIs400 ==
    \A r \in Slots :
        (IsRangeRequest(r) /\ InvalidBounds(req[r].arg)) =>
            req[r].pc = "done" /\ req[r].status = 400

(***************************************************************************)
(* C14.  A price-range request with valid bounds that no failure ends is   *)
(* answered 200 with documents whose priceNumber is within the bounds, the *)
(* most recently created first.                                            *)
(***************************************************************************)
C14_RangeFilteredNewestFirst ==
    \A r \in Slots :
        (IsRangeRequest(r) /\ ValidBounds(req[r].arg) /\ req[r].pc = "done"
           /\ req[r].fail = Nil) =>
            /\ req[r].status = 200
            /\ \A i \in DOMAIN req[r].data :
                  /\ Number(req[r].arg[1]) <= req[r].data[i].priceNumber
                  /\ req[r].data[i].priceNumber <= Number(req[r].arg[2])
            /\ \A i, j \in DOMAIN req[r].data :
                  i < j => req[r].data[i].createdAt >= req[r].data[j].createdAt


(***************************************************************************)
(* C15.  Once a request has been admitted through the quota (next() was    *)
(* called after incr and expire), the counter of its key exists and        *)
(* expires no sooner than 30 days after the request: within the 30 days    *)
(* that follow, it has not lapsed.                                         *)
(***************************************************************************)
Admitted(r) == req[r].pc = "next" /\ req[r].path # "/ping" /\ redisOn

C15_AdmittedRefreshesWindow ==
    \A r \in Slots :
        Admitted(r) =>
            /\ quota[quotaKey(req[r].key)] >= 1
            /\ quotaExp[quotaKey(req[r].key)] >= QuotaWindow
            /\ Live(quotaKey(req[r].key))


(***************************************************************************)
(* C16.  A request answered 400, 401 or 403 has done no work on the quota  *)
(* counter: it has not read it (and so has not incremented it).            *)
(***************************************************************************)
C16_RejectedBeforeAnyWork ==
    \A r \in Slots :
        (req[r].pc = "done" /\ req[r].status \in {400, 401, 403}) =>
            req[r].count = NoCount


(***************************************************************************)
(* C17.  The step in which the handler of one page fails changes neither   *)
(* the store, nor the list of written records, nor the position of any     *)
(* other page; and the run comes to the point where every page is done or  *)
(* failed.                                                                 *)
(***************************************************************************)
FailureIsLocal ==
    \A p \in Pages :
        (hpc[p] # "failed" /\ hpc'[p] = "failed") =>
            /\ store' = store
            /\ results' = results
            /\ \A o \in Pages \ {p} : hpc'[o] = hpc[o]

AllVisited == \A p \in Pages : hpc[p] \in {"done", "failed"}

C17_RunSurvivesFailedTarget == [][FailureIsLocal]_vars /\ <>AllVisited

(* a page failed before it scraped anything and another page was handled   *)
(* to its end, with a record written                                       *)
C17_Witness ==
    \E p, o \in Pages :
        /\ hpc[p] = "failed" /\ nprod[p] = 0
        /\ hpc[o] = "done" /\ Len(results) >= 1 /\ store # {}


(***************************************************************************)
(* C18.  No document of the store and no entry of the list of written      *)
(* records has a missing or empty url; and the handler that meets a draft  *)
(* without url goes back to its loop, with the store and the list as they  *)
(* were.                                                                   *)
(***************************************************************************)
NoUrlNeverWritten ==
    /\ \A d \in store : Truthy(d.url)
    /\ \A i \in DOMAIN results : Truthy(results[i].url)

NoUrlSkipped ==
    \A p \in Pages :
        (hpc[p] = "product" /\ ~Truthy(cur[p].url) /\ hpc'[p] # hpc[p]) =>
            /\ hpc'[p] = "loop"
            /\ store' = store
            /\ results' = results

C18_DraftWithoutUrlDiscarded == []NoUrlNeverWritten /\ [][NoUrlSkipped]_vars

(* a page whose first draft had an empty url was handled to its end and    *)
(* its second draft was written                                            *)
C18_Witness ==
    \E p \in Pages :
        /\ hpc[p] = "done" /\ nprod[p] = 2
        /\ Len(results) = 1 /\ results[1].sourcePage = PageUrl(p)
        /\ results[1].id = randomUUID(p, 2)


(***************************************************************************)
(* The administrative insert, POST /produit (part_003 129-156, part_005    *)
(* 100-114).  The handler compares the x-admin-key header with ADMIN_KEY,  *)
(* destructures the body, answers 400 when id or title is falsy, and       *)
(* otherwise awaits Product.updateOne({id}, {$set: ...}, {upsert: true}).  *)
(* The url of the draft is destructured and written, and never tested.     *)
(* The await is not inside a try block: when the store rejects, the        *)
(* handler ends without an answer.                                         *)
(***************************************************************************)
(* process.env.ADMIN_KEY: the key of the deployment, undefined when the    *)
(* variable is not set                                                     *)
AdminConfigs == {"admin-secret", Undefined}
AdminKeys == {"admin-secret", "wrong", Undefined}
AdminVersions == {"A", "P5"}

AdminIds    == {Undefined, "", "a1", "a2"}
AdminTitles == {Undefined, "T1", "T2"}
AdminPrices == {Undefined, "100"}
AdminUrls   == {Undefined, "u1", "u2"}

(* req.body after express.json(): a key that the caller left out reads as  *)
(* undefined                                                               *)
AdminBodies ==
    [id : AdminIds, title : AdminTitles, price : AdminPrices,
     image : {"i1"}, url : AdminUrls, category : {"c1"}]

NoNumber == NaN

(* the $set document of the version; a value that is undefined is not sent *)
(* to the store                                                            *)
AdminSet(version, b) ==
    IF version = "A"
    THEN [title |-> b.title, price |-> b.price,
          priceNumber |-> IF Truthy(b.price) THEN parsePrice(b.price) ELSE NoNumber,
          image |-> b.image, url |-> b.url, category |-> b.category]
    ELSE [title |-> b.title, price |-> Undefined, priceNumber |-> NoNumber,
          image |-> b.image, url |-> b.url, category |-> b.category]

Keep(new, old) == IF new = Undefined THEN old ELSE new
KeepNumber(new, old) == IF new = NoNumber THEN old ELSE new

(* updateOne({id}, {$set}, {upsert: true}): the document with this id gets *)
(* the fields of $set; without one, a document is made of the filter and   *)
(* of $set                                                                 *)
AdminUpserted(s, id, set) ==
    IF \E d \in s : d.id = id
    THEN { IF d.id = id
           THEN [id |-> d.id,
                 title |-> Keep(set.title, d.title),
                 price |-> Keep(set.price, d.price),
                 priceNumber |-> KeepNumber(set.priceNumber, d.priceNumber),
                 image |-> Keep(set.image, d.image),
                 url |-> Keep(set.url, d.url),
                 category |-> Keep(set.category, d.category)]
           ELSE d : d \in s }
    ELSE s \cup {[id |-> id, title |-> set.title, price |-> set.price,
                  priceNumber |-> set.priceNumber, image |-> set.image,
                  url |-> set.url, category |-> set.category]}

AdminInit == RouteStart /\ ADMIN_KEY \in AdminConfigs

AdminUnchanged == UNCHANGED <<now, ingestVars, redisOn, ADMIN_KEY, gateVars, cacheVars>>

(* lines 130-138: the tests made before the store is used                  *)
AdminValid(b) == Truthy(b.id) /\ Truthy(b.title)

AdminReceive(r) ==
    /\ req[r].pc = "idle"
    /\ \E version \in AdminVersions, k \in AdminKeys, b \in AdminBodies :
         req' = [req EXCEPT ![r] =
                   [@ EXCEPT !.version = version, !.key = k, !.body = b,
                             !.path = "/produit", !.route = "adminInsert",
                             !.pc = IF k # ADMIN_KEY \/ ~AdminValid(b)
                                    THEN "done" ELSE "updateOne",
                             !.status = IF k # ADMIN_KEY THEN 401
                                        ELSE IF ~AdminValid(b) THEN 400
                                        ELSE 0]]
    /\ UNCHANGED store
    /\ AdminUnchanged

(* lines 140-155                                                           *)
AdminUpdateOne(r) ==
    /\ req[r].pc = "updateOne"
    /\ store' = AdminUpserted(store, req[r].body.id,
                              AdminSet(req[r].version, req[r].body))
    /\ req' = [req EXCEPT ![r] = [@ EXCEPT !.pc = "done", !.status = 200]]
    /\ AdminUnchanged

(* the store rejects updateOne: the async handler rejects, nothing catches *)
(* it and no answer is written                                             *)
AdminStoreFails(r) ==
    /\ req[r].pc = "updateOne"
    /\ req' = [req EXCEPT ![r] = [@ EXCEPT !.pc = "unanswered", !.fail = "store"]]
    /\ UNCHANGED store
    /\ AdminUnchanged

AdminNext ==
    \E r \in Slots :
        \/ AdminReceive(r)
        \/ AdminUpdateOne(r)
        \/ AdminStoreFails(r)

SpecAdmin == AdminInit /\ [][AdminNext]_vars


(***************************************************************************)
(* C19.  A request of the administrator whose draft has no url or no       *)
(* title is answered 400, and the handler of such a request never changes  *)
(* the store.                                                              *)
(***************************************************************************)
Malformed(b) == ~Truthy(b.url) \/ ~Truthy(b.title)

MalformedIs400 ==
    \A r \in Slots :
        (req[r].pc # "idle" /\ req[r].key = ADMIN_KEY /\ Malformed(req[r].body)) =>
            req[r].pc = "done" /\ req[r].status = 400

MalformedLeavesStore ==
    \A r \in Slots :
        (req[r].pc # "idle" /\ Malformed(req[r].body) /\ req'[r] # req[r]) =>
            store' = store

C19_MalformedDraftRejectedBeforeStore ==
    []MalformedIs400 /\ [][MalformedLeavesStore]_vars


(***************************************************************************)
(* The list of the latest records, GET /produit, in its four versions:     *)
(* src/src/api.ts 92-117 ("api"), part_003 159-174 ("A"), part_003 405-427 *)
(* ("C") and part_001 237-265 ("P1").  Each looks the list of the plan up  *)
(* in redis, and on a miss runs find().sort({createdAt: -1}).limit(n),     *)
(* stores the list for 60 seconds and answers it.  The versions differ in  *)
(* n, in the key, and in what is stored: version A stores the documents    *)
(* and transforms them for each answer, the others store the transformed   *)
(* list.  The store does not change while the requests are served.         *)
(***************************************************************************)
ListVersions == {"api", "A", "C", "P1"}

(* api.ts line 101; part_003 line 161; part_003 line 416, part_001 line 249 *)
listLimit(version, plan) ==
    CASE version = "api" -> ListLimit
      [] version = "A"   -> (IF plan = "BASIC" THEN 20 ELSE 100)
      [] OTHER           -> (IF plan = "BASIC" THEN 20
                             ELSE IF plan = "PRO" THEN 50 ELSE 100)

(* api.ts line 95; part_003 line 164; part_003 line 408, part_001 line 240 *)
latestKey(version, plan) ==
    CASE version = "api" -> listKey(plan)
      [] version = "A"   -> "all:" \o plan
      [] OTHER           -> "latest:" \o plan

(* part_001 lines 251-257                                                  *)
transformP1(p, plan) ==
    LET base == ("id" :> p.id) @@ ("title" :> p.title)
        mid  == IF plan # "BASIC"
                THEN base @@ ("price" :> p.price) @@ ("image" :> p.image)
                       @@ ("url" :> p.url) @@ ("category" :> p.category)
                ELSE base
        top  == IF plan = "MEGA" THEN mid @@ ("sourcePage" :> p.sourcePage) ELSE mid
    IN  top @@ ("plan" :> plan)

listView(version, p, plan) ==
    CASE version = "api" -> JSONObject(transform(p, plan))
      [] version = "A"   -> JSONObject(transformProductA(p, plan))
      [] version = "C"   -> JSONObject(transformProductC(p, plan))
      [] version = "P1"  -> JSONObject(transformP1(p, plan))
listViews(version, a, plan) == [i \in DOMAIN a |-> listView(version, a[i], plan)]

(* the store when the requests come: n documents written one after the    *)
(* other, document i at time i                                             *)
ListDoc(i) ==
    [id |-> "w" \o ToString(i), title |-> "t" \o ToString(i), price |-> "100",
     priceNumber |-> 100, image |-> "i1", url |-> "u" \o ToString(i),
     sourcePage |-> PageUrl(1), category |-> "c1", createdAt |-> i]
ListStore(n) == {ListDoc(i) : i \in 1..n}

(* the sizes of the store: empty, and at and just above each limit         *)
StoreSizes ==
    {0} \cup UNION {{listLimit(v, p), listLimit(v, p) + 1} :
                       v \in ListVersions, p \in Tiers}

(* find().sort({createdAt: -1}): the documents from the newest to the      *)
(* oldest.  The place of a document is one more than the number of         *)
(* documents newer than it; newer is the table of these numbers by time,   *)
(* computed once for the set (the documents of ListStore have distinct     *)
(* createdAt).                                                             *)
NewerByTime(S) ==
    [t \in {d.createdAt : d \in S} |-> Cardinality({e \in S : e.createdAt > t})]

SortDesc(S) ==
    CHOOSE q \in { [i \in 1..Cardinality(S) |->
                      CHOOSE d \in S : newer[d.createdAt] = i - 1] :
                   newer \in {NewerByTime(S)} } : TRUE

ListInit ==
    /\ \E n \in StoreSizes : store = ListStore(n)
    /\ now = 0
    /\ hpc = [p \in Pages |-> "queued"]
    /\ left = [p \in Pages |-> 0]
    /\ mapAt = [p \in Pages |-> 0]
    /\ cur = [p \in Pages |-> NoRec]
    /\ results = <<>>
    /\ nprod = [p \in Pages |-> 0]
    /\ firstIns = [u \in Urls |-> NoRec]
    /\ lastSet = [u \in Urls |-> NoRec]
    /\ nUpserts = [u \in Urls |-> 0]
    /\ redisOn \in BOOLEAN
    /\ ADMIN_KEY = Undefined
    /\ quota = [qk \in QuotaKeys |-> NoCount]
    /\ quotaExp = [qk \in QuotaKeys |-> NoExp]
    /\ req = [r \in Slots |-> IdleReq]
    /\ cache = {}
    /\ storeVer = 0
    /\ popWin = {}

ListUnchanged == UNCHANGED <<store, now, ingestVars, redisOn, ADMIN_KEY, gateVars, storeVer, popWin>>

(* all the requests of a run go to one version of the server               *)
SameVersion(version) == \A r \in Slots : req[r].version \in {Nil, version}

(* the plan was set by the middleware; without a redis client the handler  *)
(* goes to the store at once                                               *)
LReceive(r) ==
    /\ req[r].pc = "idle"
    /\ \E version \in ListVersions, plan \in Tiers :
         /\ SameVersion(version)
         /\ req' = [req EXCEPT ![r] =
                      [@ EXCEPT !.version = version, !.plan = plan,
                                !.path = "/produit", !.route = "list",
                                !.pc = IF redisOn THEN "lGet" ELSE "lFind"]]
    /\ UNCHANGED cache
    /\ ListUnchanged

(* what is answered for a stored or a found list                           *)
ListAnswer(version, plan, payload) ==
    IF version = "A" THEN listViews(version, payload, plan) ELSE payload

(* redis.get(key): a hit is answered                                       *)
LGet(r) ==
    /\ req[r].pc = "lGet"
    /\ LET hit == redisGet(latestKey(req[r].version, req[r].plan))
       IN  IF hit # {}
           THEN \E e \in hit :
                  req' = [req EXCEPT ![r] =
                            [@ EXCEPT !.pc = "done", !.status = 200, !.fromCache = TRUE,
                                      !.body = ListAnswer(req[r].version, req[r].plan,
                                                          e.payload)]]
           ELSE req' = [req EXCEPT ![r].pc = "lFind"]
    /\ UNCHANGED cache
    /\ ListUnchanged

(* find().sort({createdAt: -1}).limit(n), and the map over the documents   *)
LFind(r) ==
    /\ req[r].pc = "lFind"
    /\ LET version  == req[r].version
           plan     == req[r].plan
           products == Limit(SortDesc(store), listLimit(version, plan))
           payload  == IF version = "A" THEN products
                       ELSE listViews(version, products, plan)
       IN  IF redisOn
           THEN req' = [req EXCEPT ![r].pc = "lSetex", ![r].data = payload]
           ELSE req' = [req EXCEPT ![r].pc = "done", ![r].status = 200,
                                   ![r].body = ListAnswer(version, plan, payload)]
    /\ UNCHANGED cache
    /\ ListUnchanged

(* redis.setex(key, 60, JSON.stringify(list)), then the answer             *)
LSetex(r) ==
    /\ req[r].pc = "lSetex"
    /\ LET k == latestKey(req[r].version, req[r].plan)
           e == [key |-> k, payload |-> req[r].data, ver |-> storeVer,
                 exp |-> Seconds(now) + ListTTL]
       IN  /\ cache' = {c \in cache : c.key # k} \cup {e}
           /\ req' = [req EXCEPT ![r].pc = "done", ![r].status = 200,
                                 ![r].data = <<>>,
                                 ![r].body = ListAnswer(req[r].version, req[r].plan,
                                                        req[r].data)]
    /\ ListUnchanged

(* an awaited call rejects: the catch block of the api, C and P1 versions  *)
(* answers 500 with {error: 'Server error'}.  Version A has no catch: the  *)
(* promise of the handler rejects, and the request is left unanswered      *)
(* (Express 4) or answered by the default error handler with its own 500   *)
(* page (Express 5).                                                       *)
LFails(r) ==
    /\ req[r].pc \in {"lGet", "lFind", "lSetex"}
    /\ LET what == IF req[r].pc = "lFind" THEN "store" ELSE "cache"
       IN  IF req[r].version = "A"
           THEN \/ req' = [req EXCEPT ![r] =
                             [@ EXCEPT !.pc = "unanswered", !.data = <<>>, !.fail = what]]
                \/ req' = [req EXCEPT ![r] =
                             [@ EXCEPT !.pc = "done", !.status = 500, !.data = <<>>,
                                       !.fail = what, !.errorBody = "html"]]
           ELSE req' = [req EXCEPT ![r] =
                          [@ EXCEPT !.pc = "done", !.status = 500, !.data = <<>>,
                                    !.fail = what, !.errorBody = "json"]]
    /\ UNCHANGED cache
    /\ ListUnchanged

ListNext ==
    \E r \in Slots :
        \/ LReceive(r)
        \/ LGet(r)
        \/ LFind(r)
        \/ LSetex(r)
        \/ LFails(r)

SpecList == ListInit /\ [][ListNext]_vars


(***************************************************************************)
(* C20.  A list answered with 200 has at most 20 records for BASIC, 50 for *)
(* PRO and 100 for ULTRA and MEGA, and its i-th record is the record of    *)
(* the store that has exactly i-1 records newer than it.                   *)
(***************************************************************************)
TierLimit(plan) ==
    CASE plan = "BASIC" -> 20
      [] plan = "PRO"   -> 50
      [] plan \in {"ULTRA", "MEGA"} -> 100

Answered(r) == req[r].pc = "done" /\ req[r].status = 200 /\ req[r].route = "list"

NewestFirst(body) ==
    \A i \in DOMAIN body :
        \E d \in store :
            /\ d.id = body[i].id
            /\ Cardinality({e \in store : e.createdAt > d.createdAt}) = i - 1

C20_ListWithinTierLimitNewestFirst ==
    \A r \in Slots :
        Answered(r) =>
            /\ Len(req[r].body) <= TierLimit(req[r].plan)
            /\ NewestFirst(req[r].body)


(***************************************************************************)
(* The five cached routes of src/src/api.ts (lines 92-237), reached        *)
(* through the router with the plan the middleware resolved.  Each handler *)
(* derives its key from the path parameters and the plan, answers a hit    *)
(* with JSON.parse of the stored text, and on a miss queries the store,    *)
(* writes the payload with setex and answers it.  The seconds of setex are *)
(* 60 for the lists and 120 for the product by id.  Every handler is       *)
(* inside try/catch: a rejected await is answered 500.                     *)
(***************************************************************************)
ApiRouteName(pattern) ==
    CASE pattern = <<"produit">> -> "list"
      [] pattern = <<"produit", ":id">> -> "id"
      [] pattern = <<"produit", "search", ":name">> -> "search"
      [] pattern = <<"produit", "price", ":price">> -> "price"
      [] pattern = <<"produit", "search", ":name", "price", ":price">> -> "searchPrice"

(* the paths of the requests: each route, the product by id with an id     *)
(* that exists, one that does not, and one that holds a colon              *)
ApiPaths ==
    { <<"produit">>,
      <<"produit", "w1">>, <<"produit", "nope">>, <<"produit", "search:t1">>,
      <<"produit", "search", "T1">>, <<"produit", "search", "t1">>,
      <<"produit", "price", "100">>, <<"produit", "price", "abc">>,
      <<"produit", "search", "t1", "price", "100">> }
ApiPlans == {"BASIC", "PRO"}

(* String.prototype.toLowerCase on the names of ApiPaths                   *)
toLowerCase(name) == IF name = "T1" THEN "t1" ELSE name

(* the parameters of the key and of the query, as the handler computes     *)
(* them from req.params (lines 123, 149-150, 179-182, 208-212)             *)
ApiArgs(route, segs) ==
    CASE route = "list"        -> <<>>
      [] route = "id"          -> <<segs[2]>>
      [] route = "search"      -> <<toLowerCase(segs[3])>>
      [] route = "price"       -> <<NumString(Number(segs[3]))>>
      [] route = "searchPrice" -> <<toLowerCase(segs[3]), NumString(Number(segs[5]))>>

(* lines 180 and 211: isNaN(priceParam)                                    *)
ApiRejected(route, segs) ==
    \/ route = "price" /\ isNaN(Number(segs[3]))
    \/ route = "searchPrice" /\ isNaN(Number(segs[5]))

(* {title: {$regex: nameQuery, $options: 'i'}} on the titles of SeedDocs   *)
TitleMatches(title, nameQuery) == title = nameQuery

(* the documents the query of the route selects (lines 101, 129, 154, 188, *)
(* 219-222); the price of the filter is cast to the String of the schema   *)
ApiSelected(route, args) ==
    CASE route = "list"        -> store
      [] route = "id"          -> {d \in store : d.id = args[1]}
      [] route = "search"      -> {d \in store : TitleMatches(d.title, args[1])}
      [] route = "price"       -> {d \in store : d.price = args[1]}
      [] route = "searchPrice" -> {d \in store : TitleMatches(d.title, args[1])
                                                  /\ d.price = args[2]}

(* lines 101, 155, 188, 222                                                *)
apiLimit(route) == IF route = "list" THEN ListLimit ELSE 50

(* lines 111, 137, 168, 198, 232: the seconds given to setex               *)
apiTTL(route) == IF route = "id" THEN 120 ELSE ListTTL

RoutesUnchanged == UNCHANGED <<store, now, ingestVars, redisOn, ADMIN_KEY, gateVars, storeVer, popWin>>

RoutesInit == RangeInit

ApiReceive(r) ==
    /\ req[r].pc = "idle"
    /\ \E segs \in ApiPaths, plan \in ApiPlans :
         LET route == ApiRouteName(Dispatch("api", segs))
             q     == [req[r] EXCEPT !.version = "api", !.plan = plan, !.path = segs,
                                     !.route = route]
         IN  IF ApiRejected(route, segs)
             THEN req' = [req EXCEPT ![r] = [q EXCEPT !.pc = "done", !.status = 400]]
             ELSE req' = [req EXCEPT ![r] =
                            [q EXCEPT !.arg = ApiArgs(route, segs),
                                      !.pc = IF redisOn THEN "aGet" ELSE "aFind"]]
    /\ UNCHANGED cache
    /\ RoutesUnchanged

(* redis.get(cacheKey); if (cached) return res.json(JSON.parse(cached))    *)
ApiGet(r) ==
    /\ req[r].pc = "aGet"
    /\ LET hit == redisGet(cacheKey(req[r].route, req[r].arg, req[r].plan))
       IN  IF hit # {}
           THEN \E e \in hit :
                  req' = [req EXCEPT ![r].pc = "done", ![r].status = 200,
                                     ![r].fromCache = TRUE, ![r].body = e.payload,
                                     ![r].hitRoute = e.route]
           ELSE req' = [req EXCEPT ![r].pc = "aFind"]
    /\ UNCHANGED cache
    /\ RoutesUnchanged

(* the query and the transform; the product by id answers 404 when there   *)
(* is no document, and writes nothing                                      *)
ApiFind(r) ==
    /\ req[r].pc = "aFind"
    /\ LET route == req[r].route
           found == ApiSelected(route, req[r].arg)
       IN  IF route = "id"
           THEN IF found = {}
                THEN req' = [req EXCEPT ![r].pc = "done", ![r].status = 404]
                ELSE \E d \in found :
                       LET obj == JSONObject(transform(d, req[r].plan))
                       IN  IF redisOn
                           THEN req' = [req EXCEPT ![r].pc = "aSetex", ![r].data = obj]
                           ELSE req' = [req EXCEPT ![r].pc = "done", ![r].status = 200,
                                                   ![r].body = obj]
           ELSE \E q \in Orders(found) :
                  LET products    == Limit(q, apiLimit(route))
                      transformed ==
                          JSONArray([i \in DOMAIN products |->
                                        transform(products[i], req[r].plan)])
                  IN  IF redisOn
                      THEN req' = [req EXCEPT ![r].pc = "aSetex", ![r].data = transformed]
                      ELSE req' = [req EXCEPT ![r].pc = "done", ![r].status = 200,
                                              ![r].body = transformed]
    /\ UNCHANGED cache
    /\ RoutesUnchanged

(* redis.setex(cacheKey, seconds, JSON.stringify(...)), then res.json      *)
ApiSetex(r) ==
    /\ req[r].pc = "aSetex"
    /\ LET k == cacheKey(req[r].route, req[r].arg, req[r].plan)
           e == [key |-> k, payload |-> req[r].data, ver |-> storeVer,
                 route |-> req[r].route, ttl |-> apiTTL(req[r].route),
                 exp |-> Seconds(now) + apiTTL(req[r].route)]
       IN  /\ cache' = {c \in cache : c.key # k} \cup {e}
           /\ req' = [req EXCEPT ![r].pc = "done", ![r].status = 200,
                                 ![r].body = req[r].data, ![r].data = <<>>]
    /\ RoutesUnchanged

(* an awaited redis or store call rejects: catch answers 500               *)
ApiFail(r) ==
    /\ req[r].pc \in {"aGet", "aFind", "aSetex"}
    /\ req' = [req EXCEPT ![r].pc = "done", ![r].status = 500, ![r].data = <<>>,
                          ![r].fail = IF req[r].pc = "aFind" THEN "store" ELSE "cache"]
    /\ UNCHANGED cache
    /\ RoutesUnchanged

RoutesNext ==
    \E r \in Slots :
        \/ ApiReceive(r)
        \/ ApiGet(r)
        \/ ApiFind(r)
        \/ ApiSetex(r)
        \/ ApiFail(r)

SpecRoutes == RoutesInit /\ [][RoutesNext]_vars


(***************************************************************************)
(* C21.  Every cache entry was written with the seconds of its class of    *)
(* endpoint: 60 for the latest list and the searches, 300 for the product  *)
(* by id.                                                                  *)
(***************************************************************************)
ClassTTL(route) == IF route = "id" THEN 300 ELSE 60

C21_EntriesHaveClassTtl ==
    \A e \in cache : e.ttl = ClassTTL(e.route)


(***************************************************************************)
(* C22.  A request for the list whose store query failed has been answered *)
(* once, with status 500, the structured error object and no record.       *)
(***************************************************************************)
C22_StoreFailureIs500 ==
    \A r \in Slots :
        (req[r].route = "list" /\ req[r].fail = "store") =>
            /\ req[r].pc = "done"
            /\ req[r].status = 500
            /\ req[r].errorBody = "json"
            /\ req[r].body = <<>>


(***************************************************************************)
(* C23.  A step of a read request leaves the store as it was, and no step  *)
(* takes a natural key (the url of a stored record) out of the store.      *)
(***************************************************************************)
NaturalKeys(s) == {d.url : d \in {x \in s : Truthy(x.url)}}

IsRead(r) == req[r].route \notin {Nil, "adminInsert"}

ReadsLeaveStore ==
    \A r \in Slots : (IsRead(r) /\ req'[r] # req[r]) => store' = store

KeysOnlyGrow == NaturalKeys(store) \subseteq NaturalKeys(store')

C23_ReadsNeverWriteKeysOnlyGrow == [][ReadsLeaveStore /\ KeysOnlyGrow]_vars


(***************************************************************************)
(* parsePrice applied to the display prices of a bounded set: every string *)
(* of at most MaxPriceLen characters of PriceAlphabet, and the two prices  *)
(* "1,299 MAD" and "free".  The pair of the price and of its number is     *)
(* kept in results.                                                        *)
(***************************************************************************)
MaxPriceLen == 3
PriceAlphabet == {"0", "1", "9", ",", ".", " ", "M"}

Price1299MAD == <<"1", ",", "2", "9", "9", " ", "M", "A", "D">>
PriceFree == <<"f", "r", "e", "e">>

PriceTexts ==
    UNION {[1..n -> PriceAlphabet] : n \in 0..MaxPriceLen} \cup {Price1299MAD, PriceFree}

PriceInit == IngestInit

ParsePrice ==
    /\ results = <<>>
    /\ \E chars \in PriceTexts :
         results' = <<[price |-> chars, priceNumber |-> parsePriceChars(chars)]>>
    /\ UNCHANGED <<store, now, hpc, left, mapAt, cur, nprod, firstIns, lastSet, nUpserts,
                   redisOn, ADMIN_KEY, gateVars, req, cacheVars>>

PriceNext == ParsePrice

SpecPrice == PriceInit /\ [][PriceNext]_vars


(***************************************************************************)
(* C24.  The number of a price is the sum of its digits, each times the    *)
(* power of ten of the number of digits that follow it in the string; the  *)
(* characters that are not digits count for nothing.  "1,299 MAD" gives    *)
(* 1299 and "free" gives 0.                                                *)
(***************************************************************************)
RECURSIVE Pow10(_)
Pow10(n) == IF n = 0 THEN 1 ELSE 10 * Pow10(n - 1)

DigitsAfter(chars, i) == Cardinality({j \in DOMAIN chars : j > i /\ chars[j] \in Digits})

RECURSIVE SumOver(_, _)
SumOver(chars, I) ==
    IF I = {} THEN 0
    ELSE LET i == CHOOSE j \in I : TRUE
         IN  DigitValue(chars[i]) * Pow10(DigitsAfter(chars, i)) + SumOver(chars, I \ {i})

DigitSum(chars) == SumOver(chars, {i \in DOMAIN chars : chars[i] \in Digits})

C24_NumericPriceIsDigitsOfPrice ==
    \A i \in DOMAIN results :
        /\ results[i].priceNumber = DigitSum(results[i].price)
        /\ results[i].price = Price1299MAD => results[i].priceNumber = 1299
        /\ results[i].price = PriceFree => results[i].priceNumber = 0

(* the price "1,299 MAD" has been parsed                                   *)
C24_Witness ==
    \E i \in DOMAIN results :
        results[i].price = Price1299MAD /\ results[i].priceNumber = 1299


(***************************************************************************)
(* C25.  A request for /ping, whatever its key header, is never answered   *)
(* by the middleware: it has read no counter, it is waiting for its route  *)
(* or answered 200, and none of its steps changes a counter or an expiry.  *)
(***************************************************************************)
PingPassesGate ==
    \A r \in Slots :
        req[r].path = "/ping" =>
            /\ req[r].pc \in {"next", "done"}
            /\ req[r].pc = "done" => req[r].status = 200
            /\ req[r].pc = "next" => req[r].status = 0
            /\ req[r].count = NoCount

PingLeavesCounters ==
    \A r \in Slots :
        (req'[r].path = "/ping" /\ req'[r] # req[r]) =>
            quota' = quota /\ quotaExp' = quotaExp

C25_PingBypassesAuthAndQuota == []PingPassesGate /\ [][PingLeavesCounters]_vars

(* /ping was answered 200 to a request without key and to one with an      *)
(* unknown key, while redis was configured                                 *)
C25_Witness ==
    /\ redisOn
    /\ \E r, o \in Slots :
         /\ req[r].path = "/ping" /\ req[r].key = Undefined
         /\ req[r].pc = "done" /\ req[r].status = 200
         /\ req[o].path = "/ping" /\ req[o].key = "bogus"
         /\ req[o].pc = "done" /\ req[o].status = 200


(***************************************************************************)
(* C26.  With the requests served one after the other, for a key of the    *)
(* plan mapping: the request is denied with 429 exactly when the counter   *)
(* it read is at or above the ceiling of its plan; the increment raises    *)
(* the live counter by 1 (a counter that is gone starts at 1); a step that *)
(* denies a request changes no counter and no expiry; a step changes only  *)
(* the counter and the expiry of the key of the request that takes it; a   *)
(* counter goes down only when its window has lapsed; and no counter of    *)
(* such a key is above its ceiling.                                        *)
(***************************************************************************)
Recognized(r) == req[r].key \in OwnKeys

DecidedByCeiling ==
    \A r \in Slots :
        (Recognized(r) /\ req[r].count # NoCount) =>
            /\ req[r].status = 429 <=> req[r].count >= planQuota[req[r].plan]
            /\ req[r].status = 429 => req[r].pc = "done"
            /\ req[r].pc \in {"mwIncr", "mwExpire", "next"} =>
                   req[r].count < planQuota[req[r].plan]

WithinCeiling ==
    \A k \in OwnKeys :
        Live(quotaKey(k)) => quota[quotaKey(k)] <= planQuota[planMapping[k]]

QuotaStep ==
    \A r \in Slots :
        req'[r] # req[r] =>
            LET qk == quotaKey(req[r].key)
            IN  /\ (req[r].pc = "mwIncr" /\ req'[r].pc = "mwExpire") =>
                       quota'[qk] = redisGetCount(qk) + 1
                /\ req'[r].status = 429 => quota' = quota /\ quotaExp' = quotaExp
                /\ \A o \in QuotaKeys \ {qk} :
                       quota'[o] = quota[o] /\ quotaExp'[o] = quotaExp[o]

NeverDecreasesInWindow ==
    \A qk \in QuotaKeys : quota'[qk] < quota[qk] => ~Live(qk)

C26_SerialQuotaStep ==
    /\ [](DecidedByCeiling /\ WithinCeiling)
    /\ [][QuotaStep /\ NeverDecreasesInWindow]_vars

(* one request of a key was admitted and brought the counter to the        *)
(* ceiling, and the next request of the key was denied                     *)
C26_Witness ==
    \E r, o \in Slots :
        /\ r # o /\ req[r].key = req[o].key /\ Recognized(r)
        /\ req[r].pc = "next" /\ req[r].count # NoCount
        /\ req[r].count = planQuota[req[r].plan] - 1
        /\ req[o].pc = "done" /\ req[o].status = 429
        /\ req[o].count = planQuota[req[o].plan]


(***************************************************************************)
(* C27.  A request on the price-range path or on the categories path is    *)
(* given to the handler registered for that path, never to the handler of  *)
(* the product by id.                                                      *)
(***************************************************************************)
C27_DispatchReachesIntendedHandler ==
    \A r \in Slots :
        (req[r].pc # "idle" /\ req[r].path \in {RangePath, CategoriesPath}) =>
            /\ req[r].route = req[r].path
            /\ req[r].pc \notin {"iGet", "iFind", "iSetex"}


(***************************************************************************)
(* C28.  Two requests in progress or answered that differ in their route,  *)
(* in their parameters or in their plan have different cache keys; and a   *)
(* request answered from the cache got a payload written by its own route. *)
(***************************************************************************)
HasKey(r) == req[r].version = "api" /\ req[r].route \in Routes /\ req[r].status # 400

KeyOf(r) == cacheKey(req[r].route, req[r].arg, req[r].plan)

C28_KeysInjectiveAcrossRoutes ==
    /\ \A r, o \in Slots :
         (HasKey(r) /\ HasKey(o)
            /\ <<req[r].route, req[r].arg, req[r].plan>>
                 # <<req[o].route, req[o].arg, req[o].plan>>) =>
             KeyOf(r) # KeyOf(o)
    /\ \A r \in Slots :
         (HasKey(r) /\ req[r].fromCache) => req[r].hitRoute = req[r].route


(***************************************************************************)
(* C29.  Every entry of the list of written records has the id and the     *)
(* createdAt of the document the store holds for its url.                  *)
(***************************************************************************)
C29_SnapshotCarriesStoredIdentity ==
    \A i \in DOMAIN results :
        /\ Matching(results[i].url) # {}
        /\ \A d \in Matching(results[i].url) :
              /\ d.id = results[i].id
              /\ d.createdAt = results[i].createdAt


(***************************************************************************)
(* C30.  A counter that exists has an expiry, except while the request     *)
(* that created it is between its increment and its expire command.        *)
(***************************************************************************)
C30_EveryCounterHasExpiry ==
    \A qk \in QuotaKeys :
        (quota[qk] # NoCount /\ quotaExp[qk] = NoExp) =>
            \E r \in Slots : req[r].pc = "mwExpire" /\ quotaKey(req[r].key) = qk


(***************************************************************************)
(* C31.  Once no read of a key is between its cache miss and its cache     *)
(* write, the entry left under the key was computed from a store version   *)
(* at least as new as the one read by every read of that key that missed   *)
(* and was answered: a slower read has not put an older payload over a     *)
(* fresher one.                                                            *)
(***************************************************************************)
MissAnswered(r, k) ==
    /\ req[r].pc = "done" /\ req[r].status = 200 /\ ~req[r].fromCache
    /\ req[r].route = "list"
    /\ cacheKey(req[r].route, req[r].arg, req[r].plan) = k

MissesComplete(k) ==
    \A o \in Slots :
        ~(/\ req[o].pc \in {"rFind", "rSetex"}
          /\ cacheKey(req[o].route, req[o].arg, req[o].plan) = k)

C31_SlowMissNeverOverwritesFresher ==
    \A e \in cache :
        MissesComplete(e.key) =>
            \A r \in Slots : MissAnswered(r, e.key) => e.ver >= req[r].ver


(***************************************************************************)
(* C32.  No call of cache(key, fn, ttl) fails because the 'error' listener *)
(* set the handle to null while the call was between its get and its       *)
(* setex: a call throws only when its awaited get, fn or setex rejected,   *)
(* and a call at its setex with the handle null goes on to return.         *)
(***************************************************************************)
C32_ReadSurvivesHandleLoss ==
    \A r \in Slots :
        req[r].pc = "thrown" => req[r].fail \in {"store", "cache"}


(***************************************************************************)
(* GET /produit/:id while the crawler writes to the store: the handler of  *)
(* src/src/api.ts (lines 120-143), which answers 404 before it reaches its *)
(* setex, and the one of src/unnamed/part_003 (lines 224-237), which hands *)
(* its findOne to cache() and looks at the result afterwards.  Each        *)
(* request notes whether the store held the record when it came.           *)
(***************************************************************************)
DetailVersions == {"api", "A"}
DetailIds == {"w1"}
DetailPlans == {"BASIC", "PRO"}

DetailInit == RouteInit

DetailReceive(r) ==
    /\ req[r].pc = "idle"
    /\ \E version \in DetailVersions, plan \in DetailPlans, id \in DetailIds :
         LET q == [req[r] EXCEPT !.version = version, !.plan = plan,
                                 !.path = <<"produit", id>>, !.route = "id",
                                 !.present = \E d \in store : d.id = id]
         IN  IF version = "api"
             THEN req' = [req EXCEPT ![r] =
                            [q EXCEPT !.arg = ApiArgs("id", <<"produit", id>>),
                                      !.pc = IF redisOn THEN "aGet" ELSE "aFind"]]
             ELSE req' = [req EXCEPT ![r] =
                            [q EXCEPT !.arg = <<id, "">>, !.ttl = 300,
                                      !.pc = IF redisOn THEN "cGet" ELSE "cFnDirect"]]
    /\ UNCHANGED <<store, now, ingestVars, redisOn, ADMIN_KEY, gateVars, cacheVars>>

(* a property the document does not have reads as undefined                *)
ReadDoc(d) == IF "category" \in DOMAIN d THEN d ELSE d @@ [category |-> Undefined]

(* part_003 lines 235-237: cache() has returned the product, or null       *)
DetailAnswer(r) ==
    /\ req[r].pc = "returned"
    /\ req[r].version = "A"
    /\ IF req[r].body = <<>>
       THEN req' = [req EXCEPT ![r].pc = "done", ![r].status = 404]
       ELSE req' = [req EXCEPT ![r].pc = "done", ![r].status = 200,
                       ![r].body = JSONObject(transformProductA(ReadDoc(req[r].body[1]),
                                                         req[r].plan))]
    /\ UNCHANGED <<store, now, ingestVars, redisOn, ADMIN_KEY, gateVars, cacheVars>>

DetailNext ==
    \/ \E r \in Slots : DetailReceive(r)
    \/ \E r \in Slots : ApiGet(r)
    \/ \E r \in Slots : ApiFind(r)
    \/ \E r \in Slots : ApiSetex(r)
    \/ \E r \in Slots : ApiFail(r)
    \/ \E r \in Slots : CGet(r)
    \/ \E r \in Slots : CFn(r)
    \/ \E r \in Slots : CSetex(r)
    \/ \E r \in Slots : CSetexNoHandle(r)
    \/ \E r \in Slots : CThrow(r)
    \/ \E r \in Slots : DetailAnswer(r)
    \/ RedisOnError
    \/ Ingest
    \/ Tick

SpecDetail == DetailInit /\ [][DetailNext]_vars

(***************************************************************************)
(* C33.  A request for the product by id that came when the store held a   *)
(* record with the id, and that no failure of the store or of redis ended, *)
(* is answered 200: an earlier 404 for the id has left nothing in the      *)
(* cache that could answer in place of the store.                          *)
(***************************************************************************)
C33_NotFoundNeverCached ==
    \A r \in Slots :
        (req[r].pc = "done" /\ req[r].route = "id" /\ req[r].present
           /\ req[r].fail = Nil) =>
            req[r].status = 200


(***************************************************************************)
(* C34.  In every configuration of ADMIN_KEY, set or not: a request to the *)
(* administrative insert that carries no x-admin-key header is answered    *)
(* 401, and the store changes only in the handler of a request whose       *)
(* header equals a configured key.                                         *)
(***************************************************************************)
NoHeaderIs401 ==
    \A r \in Slots :
        (req[r].route = "adminInsert" /\ req[r].key = Undefined) =>
            req[r].pc = "done" /\ req[r].status = 401

StoreChangesWithAdminKey ==
    store' # store =>
        \E r \in Slots :
            /\ req[r].route = "adminInsert" /\ req'[r].pc = "done"
            /\ req[r].pc # "done"
            /\ ADMIN_KEY # Undefined /\ req[r].key = ADMIN_KEY

C34_InsertOnlyWithConfiguredAdminKey ==
    []NoHeaderIs401 /\ [][StoreChangesWithAdminKey]_vars

====
